---- MODULE Spec2Model ----
(***************************************************************************)
(* Model of the attentv-control statistics server (src/unnamed/part_001,   *)
(* the current server; src/server.ts is its earlier revision).             *)
(*                                                                         *)
(* Time is counted in whole seconds: Date.now() and the ISO timestamps of  *)
(* the play records are milliseconds in the source, every duration of the  *)
(* source is a multiple of 1000 ms and is divided by 1000 here.            *)
(* A nullable JavaScript value is a sequence: <<>> is null/undefined and   *)
(* <<x>> is the value x.                                                   *)
(***************************************************************************)
EXTENDS Integers, Sequences, FiniteSets, TLC

VARIABLES
    now,                 \* Date.now(), in seconds
    deviceSummaryCache,  \* Map<string, CacheEntry>: key -> [data, timestamp]
    deviceAdsCache,      \* Map<string, CacheEntry>
    aggregateCache,      \* Map<string, CacheEntry>
    op,                  \* the last direct getCached / setCached call and what it returned
    lastPutAt,           \* history: key -> time of the last direct setCached of that key
    plays,               \* the play table attentv-ad-plays-prod, in device-index order
    walk,                \* one run of the pagination loop: its locals and the calls it made
    received,            \* number of requests received so far
    res,                 \* the last response sent, with the request it answers
    polled,              \* the URL the dashboard client of this run polls: a request without its refresh flag
    inflight             \* the handlers suspended at an await, in the order they started, with what they hold

cacheVars == <<deviceSummaryCache, deviceAdsCache, aggregateCache>>
reqVars == <<received, res, polled, inflight>>
vars == <<now, deviceSummaryCache, deviceAdsCache, aggregateCache, op, lastPutAt, plays, walk,
          received, res, polled, inflight>>

----------------------------------------------------------------------------
(* Bounds of the model *)

MaxTicks == 3            \* clock advances explored from StartTime
MaxRecords == 5          \* play records in the table of the pagination runs
MaxPageSize == 3         \* records the store evaluates for one page, at most
MaxRequests == 2         \* requests received in one behaviour
MaxPlays == 2            \* plays written to the table while the server runs
MaxFaults == 1           \* upstream calls that fail during one request
MaxItems == 3            \* records in the table of the aggregation runs, rows given to the sort
MaxCalls == 6            \* queries explored of a walk that the store never ends
MaxRows == 22            \* rows given to the slice of the leaderboard

----------------------------------------------------------------------------
(* Values *)

Null == <<>>
Some(x) == <<x>>

CACHE_TTL == 30000 \div 1000
AGGREGATE_CACHE_TTL == 60000 \div 1000

HOUR == 60 * 60
DAY == 24 * HOUR

StartTime == 40 * DAY            \* Date.now() when the model starts
ClockStep == CACHE_TTL           \* seconds by which one Tick advances Date.now()

Devices == {"d1", "d2"}
Ads == {"a1.mp4", "a2.mp4"}

Min(a, b) == IF a <= b THEN a ELSE b

----------------------------------------------------------------------------
(* Ephemeral cache: getCached / setCached *)

MapRemove(cache, key) == [k \in (DOMAIN cache) \ {key} |-> cache[k]]
MapSet(cache, key, entry) == [k \in (DOMAIN cache) \cup {key} |-> IF k = key THEN entry ELSE cache[k]]

\* a read that compares with >= : an entry of age exactly ttl is evicted
getCachedStrict(cache, key, ttl, t) ==
    IF key \notin DOMAIN cache
    THEN [data |-> Null, cache |-> cache]
    ELSE LET entry == cache[key]
             age == t - entry.timestamp
         IN  IF age >= ttl
             THEN [data |-> Null, cache |-> MapRemove(cache, key)]
             ELSE [data |-> Some(entry.data), cache |-> cache]

\* a read that restarts the entry's life on a hit (sliding expiration)
getCachedSliding(cache, key, ttl, t) ==
    IF key \notin DOMAIN cache
    THEN [data |-> Null, cache |-> cache]
    ELSE LET entry == cache[key]
             age == t - entry.timestamp
         IN  IF age > ttl
             THEN [data |-> Null, cache |-> MapRemove(cache, key)]
             ELSE [data |-> Some(entry.data),
                   cache |-> MapSet(cache, key, [data |-> entry.data, timestamp |-> t])]

\* getCached returns the data (or null) and the map as the read left it
getCached(cache, key, ttl, t) ==
    IF key \notin DOMAIN cache
    THEN [data |-> Null, cache |-> cache]
    ELSE LET entry == cache[key]
             age == t - entry.timestamp
         IN  IF age > ttl
             THEN [data |-> Null, cache |-> MapRemove(cache, key)]
             ELSE [data |-> Some(entry.data), cache |-> cache]

\* the entry stored under a key, if any
EntryOf(cache, key) == IF key \in DOMAIN cache THEN Some(cache[key]) ELSE Null

\* a write that keeps an entry that is already stored under the key
setCachedIfAbsent(cache, key, data, t) ==
    IF key \in DOMAIN cache THEN cache
    ELSE MapSet(cache, key, [data |-> data, timestamp |-> t])

setCached(cache, key, data, t) ==
    MapSet(cache, key, [data |-> data, timestamp |-> t])

----------------------------------------------------------------------------
(* The play table as the handlers see it through docClient.send(QueryCommand) *)

\* records of the device-index partition of a device, in index order
DeviceItems(deviceId) == SelectSeq(plays, LAMBDA r : r.device_id = deviceId)

\* FilterExpression '#ad = :ad'; adFilter = Null when the query has none
PassesFilter(r, adFilter) == adFilter = Null \/ r.ad_filename = adFilter[1]

\* One Query call on `matching`, the records that satisfy the key condition:
\* the store evaluates at most pageSize records after ExclusiveStartKey,
\* returns those that pass the filter and, when records remain, the position
\* it stopped at as LastEvaluatedKey (a key object, truthy in JavaScript).
\* Items is an array, also when it is empty, unless the query selects COUNT.
QueryPage(matching, adFilter, exclusiveStartKey, pageSize, select) ==
    LET from == IF exclusiveStartKey = Null THEN 0 ELSE exclusiveStartKey[1]
        to == Min(from + pageSize, Len(matching))
        evaluated == SubSeq(matching, from + 1, to)
        items == SelectSeq(evaluated, LAMBDA r : PassesFilter(r, adFilter))
    IN  [Items |-> IF select = "COUNT" THEN Null ELSE Some(items),
         Count |-> Len(items),
         ScannedCount |-> Len(evaluated),
         LastEvaluatedKey |-> IF to < Len(matching) THEN Some(to) ELSE Null]

----------------------------------------------------------------------------
(* Pagination walker: the while (hasMore) loop of getAllItemsForDevice, of   *)
(* the timeseries handler and of the per-ad queries                         *)

NoWalk == [pc |-> "idle", deviceId |-> "", adFilter |-> Null, pageSize |-> 0,
           items |-> <<>>, lastEvaluatedKey |-> Null, hasMore |-> FALSE,
           sent |-> <<>>, pages |-> <<>>]

\* const items = []; let lastEvaluatedKey = undefined; let hasMore = true
WalkerInit(deviceId, adFilter, pageSize) ==
    [pc |-> "loop", deviceId |-> deviceId, adFilter |-> adFilter, pageSize |-> pageSize,
     items |-> <<>>, lastEvaluatedKey |-> Null, hasMore |-> TRUE,
     sent |-> <<>>, pages |-> <<>>]

\* the query of one iteration: it carries ExclusiveStartKey only when
\* lastEvaluatedKey is truthy
WalkerQuery(w) ==
    QueryPage(DeviceItems(w.deviceId), w.adFilter,
              IF w.lastEvaluatedKey # Null THEN w.lastEvaluatedKey ELSE Null,
              w.pageSize, "ALL_ATTRIBUTES")

\* a loop body that stops after three pages
WalkerPushCapped(w, response) ==
    [w EXCEPT !.items = IF response.Items # Null THEN @ \o response.Items[1] ELSE @,
              !.lastEvaluatedKey = response.LastEvaluatedKey,
              !.hasMore = (response.LastEvaluatedKey # Null /\ Len(w.sent) + 1 < 3),
              !.sent = Append(@, w.lastEvaluatedKey),
              !.pages = Append(@, response)]

\* what the loop body does with the response: the page's Items (if any) are
\* pushed onto items, lastEvaluatedKey = response.LastEvaluatedKey,
\* hasMore = !!lastEvaluatedKey
WalkerPush(w, response) ==
    [w EXCEPT !.items = IF response.Items # Null THEN @ \o response.Items[1] ELSE @,
              !.lastEvaluatedKey = response.LastEvaluatedKey,
              !.hasMore = (response.LastEvaluatedKey # Null),
              !.sent = Append(@, w.lastEvaluatedKey),
              !.pages = Append(@, response)]

\* a loop body that keeps only the page it has just received
WalkerBodyLastPage(w) == [WalkerPush(w, WalkerQuery(w)) EXCEPT !.items = SubSeq(@, Len(w.items) + 1, Len(@))]

\* one iteration of the loop body
WalkerBody(w) == WalkerPush(w, WalkerQuery(w))

WalkerStart(deviceId, adFilter, pageSize) ==
    /\ walk.pc \in {"idle", "done"}
    /\ walk' = WalkerInit(deviceId, adFilter, pageSize)
    /\ UNCHANGED <<now, cacheVars, op, lastPutAt, plays, reqVars>>

WalkerIterate ==
    /\ walk.pc = "loop"
    /\ walk.hasMore
    /\ walk' = WalkerBody(walk)
    /\ UNCHANGED <<now, cacheVars, op, lastPutAt, plays, reqVars>>

\* return items
WalkerReturn ==
    /\ walk.pc = "loop"
    /\ ~walk.hasMore
    /\ walk' = [walk EXCEPT !.pc = "done"]
    /\ UNCHANGED <<now, cacheVars, op, lastPutAt, plays, reqVars>>

----------------------------------------------------------------------------
(* Sequence helpers *)

RECURSIVE SumSeq(_)
SumSeq(q) == IF q = <<>> THEN 0 ELSE Head(q) + SumSeq(Tail(q))

\* the array whose elements are f[1], ..., f[n], each computed once
Array(f) == f \o <<>>

Reverse(q) == Array([i \in 1..Len(q) |-> q[Len(q) + 1 - i]])

Range(q) == {q[i] : i \in 1..Len(q)}

\* Array.prototype.sort with a comparator that subtracts the key of b from
\* the key of a, keys[i] being the key of q[i]: stable and ascending in key;
\* an element goes after those that have a smaller key and those that have
\* its key and stand before it
SortAsc(q, keys) ==
    LET pos == Array([i \in 1..Len(q) |->
                   1 + Cardinality({j \in 1..Len(q) :
                           \/ keys[j] < keys[i]
                           \/ (keys[j] = keys[i] /\ j < i)})])
    IN  Array([p \in 1..Len(q) |-> q[CHOOSE i \in 1..Len(q) : pos[i] = p]])

\* stable, descending in key
SortDesc(q, keys) == SortAsc(q, Array([i \in 1..Len(keys) |-> 0 - keys[i]]))

----------------------------------------------------------------------------
(* The bucket attntv as the handlers see it through s3Client.send           *)

\* objects of the bucket in key order; mp4 tells whether the key ends in .mp4
BucketObjects ==
    << [dir |-> "ad_metrics", name |-> "plays.csv", mp4 |-> FALSE],
       [dir |-> "d1", name |-> "a1.mp4", mp4 |-> TRUE],
       [dir |-> "d1", name |-> "a2.mp4", mp4 |-> TRUE],
       [dir |-> "d1", name |-> "notes.txt", mp4 |-> FALSE],
       [dir |-> "d2", name |-> "a1.mp4", mp4 |-> TRUE] >>

\* ListObjectsV2 with Delimiter '/': the CommonPrefixes, without the slash
CommonPrefixes == <<"ad_metrics", "d1", "d2">>

\* ListObjectsV2 with Prefix deviceId/ , mapped to names, filtered to .mp4;
\* the listing is in key order, which .sort() keeps
ListAds(deviceId) ==
    LET contents == SelectSeq(BucketObjects, LAMBDA o : o.dir = deviceId)
        mp4s == SelectSeq(contents, LAMBDA o : o.mp4)
    IN  Array([i \in 1..Len(mp4s) |-> mp4s[i].name])

----------------------------------------------------------------------------
(* Upstream faults: the calls that fail during one request.                 *)
(*   <<"prefixes">>        the listing of the bucket's prefixes             *)
(*   <<"list", d>>         the listing of the objects under d/              *)
(*   <<"query", d, f, k>>  the k-th page of a query on device d's           *)
(*                         partition with ad filter f (Null: no filter)     *)
(* and the size of the store's pages.                                       *)

AdFilters == {Null} \cup {Some(a) : a \in Ads}

\* pages the store needs for a query on the partition of a device
PagesOf(deviceId, pageSize) ==
    LET n == Len(DeviceItems(deviceId))
    IN  IF n = 0 THEN 1 ELSE (n + pageSize - 1) \div pageSize

\* the sets of at most n of the targets
RECURSIVE FaultSets(_, _)
FaultSets(targets, n) ==
    IF n = 0 THEN {{}}
    ELSE LET smaller == FaultSets(targets, n - 1)
         IN  smaller \cup {F \cup {t} : F \in smaller, t \in targets}

\* page sizes that split the table differently: all sizes from the number of
\* records on answer in one page
PageSizes == 1..Min(MaxPageSize, IF Len(plays) = 0 THEN 1 ELSE Len(plays))

\* the first page of the query that fails, 0 when none does
FailPage(env, deviceId, adFilter) ==
    LET failing == {t \in env.faults : /\ t[1] = "query"
                                       /\ t[2] = deviceId
                                       /\ t[3] = adFilter}
    IN  IF failing = {} THEN 0
        ELSE (CHOOSE t \in failing : \A u \in failing : t[4] <= u[4])[4]

UpstreamError == [error |-> "upstream failure", code |-> "ServiceException"]

\* res.status(500).json(...) of a handler's catch, after `calls` upstream calls
Status500(calls) == [status |-> 500, body |-> UpstreamError, calls |-> calls]

\* res.json(result) after `calls` upstream calls
Json(body, calls) == [status |-> 200, body |-> body, calls |-> calls]

----------------------------------------------------------------------------
(* The pagination loop run to its end inside a handler: it returns the      *)
(* items, or throws when a page fails; calls counts the queries sent.       *)

RECURSIVE WalkerRun(_, _)
WalkerRun(w, failPage) ==
    IF ~w.hasMore THEN [threw |-> FALSE, items |-> w.items, calls |-> Len(w.sent), pages |-> w.pages]
    ELSE IF Len(w.sent) + 1 = failPage
         THEN [threw |-> TRUE, items |-> <<>>, calls |-> Len(w.sent) + 1, pages |-> w.pages]
         ELSE WalkerRun(WalkerBody(w), failPage)

getAllItemsForDevice(deviceId, env) ==
    WalkerRun(WalkerInit(deviceId, Null, env.pageSize), FailPage(env, deviceId, Null))

\* getAllDevices: the prefixes without ad_metrics, sorted; [] when the listing fails
getAllDevices(env) ==
    IF <<"prefixes">> \in env.faults THEN <<>>
    ELSE SelectSeq(CommonPrefixes, LAMBDA d : d # "ad_metrics")

\* new Date(item.timestamp || 0).getTime()
TimeOf(item) == IF item.timestamp = Null THEN 0 ELSE item.timestamp[1]

\* item.play_duration || 0
DurationOf(item) == IF item.play_duration = Null THEN 0 ELSE item.play_duration[1]

\* the times of the items, in their order
TimesOf(items) == Array([i \in 1..Len(items) |-> TimeOf(items[i])])

\* a quotient kept as numerator and denominator
Ratio(num, den) == [num |-> num, den |-> den]

----------------------------------------------------------------------------
(* GET /api/stats/device/:deviceId/summary *)

\* getHoursAgoTimestamp(hours), taken at time t
getHoursAgoTimestamp(t, hours) == t - hours * HOUR

\* records of the device with timestamp >= since, in index order
DeviceItemsSince(deviceId, since) ==
    SelectSeq(DeviceItems(deviceId), LAMBDA r : r.timestamp # Null /\ r.timestamp[1] >= since)

\* the three queries sent together and the response built from their results;
\* req.t0 is the time at which the handler computed its two thresholds
\* resultLast.Items?.[0] || null
FirstItemOf(resultLast) ==
    IF resultLast.Items # Null /\ Len(resultLast.Items[1]) > 0
    THEN Some(resultLast.Items[1][1]) ELSE Null

\* the summary object built from the three results
DeviceSummaryOf(deviceId, result24hr, result1hr, first) ==
    [deviceId |-> deviceId,
     plays24hr |-> result24hr.Count,
     plays1hr |-> result1hr.Count,
     lastPlayTime |-> IF first # Null THEN first[1].timestamp ELSE Null,
     lastPlayData |-> first]

DeviceSummaryResponse(req, env) ==
    IF FailPage(env, req.deviceId, Null) # 0 THEN Status500(3)
    ELSE Json(DeviceSummaryOf(
                 req.deviceId,
                 QueryPage(DeviceItemsSince(req.deviceId, getHoursAgoTimestamp(req.t0, 24)),
                           Null, Null, env.pageSize, "COUNT"),
                 QueryPage(DeviceItemsSince(req.deviceId, getHoursAgoTimestamp(req.t0, 1)),
                           Null, Null, env.pageSize, "COUNT"),
                 \* Limit: 1, ScanIndexForward: false
                 FirstItemOf(QueryPage(Reverse(DeviceItems(req.deviceId)), Null, Null, 1,
                                       "ALL_ATTRIBUTES"))),
              3)

----------------------------------------------------------------------------
(* GET /api/stats/device/:deviceId/ads *)

\* the timestamp of the first item after a stable sort by time, earliest first
FirstPlayedOf(items) ==
    IF Len(items) > 0 THEN SortAsc(items, TimesOf(items))[1].timestamp ELSE Null

\* sorted[0]?.timestamp || null after a stable sort by time, latest first
LastPlayedOf(items) ==
    IF Len(items) > 0 THEN SortDesc(items, TimesOf(items))[1].timestamp ELSE Null

\* items.reduce((sum, item) => sum + (item.play_duration || 0), 0)
TotalDurationOf(items) == SumSeq([i \in 1..Len(items) |-> DurationOf(items[i])])

\* totalPlays > 0 ? totalDuration / totalPlays : 0
AverageOf(totalDuration, totalPlays) ==
    IF totalPlays > 0 THEN Ratio(totalDuration, totalPlays) ELSE Ratio(0, 1)

\* the row of an ad whose branch threw
DeviceAdErrorRow(adFilename) ==
    [adFilename |-> adFilename, totalPlays |-> 0, totalDuration |-> 0,
     averageDuration |-> Ratio(0, 1), lastPlayed |-> Null, error |-> Some(UpstreamError.error)]

\* one branch of the fan-out: the ad's paginated query and its aggregation,
\* with the branch's own catch
\* the row aggregated from the items of an ad
DeviceAdStats(adFilename, items) ==
    [adFilename |-> adFilename,
     totalPlays |-> Len(items),
     totalDuration |-> TotalDurationOf(items),
     averageDuration |-> AverageOf(TotalDurationOf(items), Len(items)),
     lastPlayed |-> LastPlayedOf(items),
     error |-> Null]

\* the outcome of a branch whose paginated query ended as `run`, when the
\* branch has no catch of its own: a throw rejects the branch
DeviceAdBranchNoCatch(adFilename, run) ==
    [threw |-> run.threw, calls |-> run.calls, row |-> DeviceAdStats(adFilename, run.items)]

\* the outcome of a branch whose paginated query ended as `run`: the try
\* block's row, or the catch block's
DeviceAdBranch(adFilename, run) ==
    [threw |-> FALSE,
     calls |-> run.calls,
     row |-> IF run.threw THEN DeviceAdErrorRow(adFilename)
             ELSE DeviceAdStats(adFilename, run.items)]

\* one branch of the fan-out: the ad's paginated query and its aggregation
DeviceAdRow(deviceId, adFilename, env) ==
    DeviceAdBranch(adFilename,
                   WalkerRun(WalkerInit(deviceId, Some(adFilename), env.pageSize),
                             FailPage(env, deviceId, Some(adFilename))))

\* Promise.all over the branches and the response: a branch that rejects
\* takes the handler to its catch
FanOutResponse(body, branches) ==
    IF \E i \in 1..Len(branches) : branches[i].threw
    THEN Status500(1 + SumSeq([i \in 1..Len(branches) |-> branches[i].calls]))
    ELSE Json(body, 1 + SumSeq([i \in 1..Len(branches) |-> branches[i].calls]))

RowsOf(branches) == Array([i \in 1..Len(branches) |-> branches[i].row])

DeviceAdsOf(deviceId, branches) ==
    FanOutResponse([deviceId |-> deviceId, ads |-> RowsOf(branches)], branches)

DeviceAdBranches(deviceId, ads, env) ==
    Array([i \in 1..Len(ads) |-> DeviceAdRow(deviceId, ads[i], env)])

DeviceAdsResponse(req, env) ==
    IF <<"list", req.deviceId>> \in env.faults THEN Status500(1)
    ELSE DeviceAdsOf(req.deviceId, DeviceAdBranches(req.deviceId, ListAds(req.deviceId), env))

----------------------------------------------------------------------------
(* Cross-device aggregates: shared pieces *)

\* for (const deviceId of devices) { items = await getAllItemsForDevice(deviceId);
\* allItems.push(...items) }: the first device whose walk throws ends the loop
Gathered(run, rest) ==
    IF run.threw THEN [threw |-> TRUE, items |-> <<>>, calls |-> run.calls]
    ELSE [threw |-> rest.threw, items |-> run.items \o rest.items,
          calls |-> run.calls + rest.calls]

RECURSIVE GatherAllItems(_, _)
GatherAllItems(devices, env) ==
    IF devices = <<>> THEN [threw |-> FALSE, items |-> <<>>, calls |-> 0]
    ELSE Gathered(getAllItemsForDevice(Head(devices), env), GatherAllItems(Tail(devices), env))

\* the response of a handler that gathered `all` after listing the devices
GatheredResponse(all, body) ==
    IF all.threw THEN Status500(1 + all.calls) ELSE Json(body, 1 + all.calls)

\* Math.round(100 * num / den), for num >= 0 and den > 0: the value in hundredths
RoundHundredths(num, den) == (200 * num + den) \div (2 * den)

\* Date.getUTCHours and Date.getUTCDay of a time in seconds (1 Jan 1970 was a Thursday)
UTCHours(t) == (t \div HOUR) % 24
UTCDay(t) == ((t \div DAY) + 4) % 7

\* distinct ad names of the items
AdNamesOf(items) == {items[i].ad_filename : i \in 1..Len(items)}

\* plays per day between the first and the last play, in hundredths; Null
\* stands for NaN (a first or last item without a timestamp)
PlaysPerDayBetween(totalPlays, firstPlay, lastPlay) ==
    IF firstPlay = Null \/ lastPlay = Null THEN Null
    \* daysDiff = Math.max(1, diff / DAY); totalPlays / daysDiff
    ELSE IF lastPlay[1] - firstPlay[1] <= DAY THEN Some(RoundHundredths(totalPlays, 1))
    ELSE Some(RoundHundredths(totalPlays * DAY, lastPlay[1] - firstPlay[1]))

PlaysPerDaySorted(sorted) ==
    PlaysPerDayBetween(Len(sorted), sorted[1].timestamp, sorted[Len(sorted)].timestamp)

PlaysPerDay(items) ==
    IF Len(items) = 0 THEN Some(0) ELSE PlaysPerDaySorted(SortAsc(items, TimesOf(items)))

----------------------------------------------------------------------------
(* GET /api/stats/aggregate/summary *)

\* a count that takes a record without a timestamp as inside every window
PlaysSinceOrUndated(allItems, since) ==
    Len(SelectSeq(allItems, LAMBDA r : r.timestamp = Null \/ r.timestamp[1] >= since))

\* allItems.filter(item => item.timestamp >= since).length: a comparison of
\* ISO strings, which orders them as their times; undefined >= string is false
PlaysSince(allItems, since) ==
    Len(SelectSeq(allItems, LAMBDA r : r.timestamp # Null /\ r.timestamp[1] >= since))

\* the summary of the items of `activeDevices` devices, computed at time t
AggregateSummaryOf(allItems, activeDevices, t) ==
    [totalPlays |-> Len(allItems),
     totalPlays24hr |-> PlaysSince(allItems, t - DAY),
     totalPlays7d |-> PlaysSince(allItems, t - 7 * DAY),
     totalPlays30d |-> PlaysSince(allItems, t - 30 * DAY),
     uniqueAds |-> Cardinality(AdNamesOf(allItems)),
     totalDuration |-> TotalDurationOf(allItems),
     activeDevices |-> activeDevices,
     avgPlaysPerDevice |-> IF activeDevices > 0
                           THEN RoundHundredths(Len(allItems), activeDevices)
                           ELSE 0]

AggregateSummaryGathered(all, activeDevices, t) ==
    GatheredResponse(all, AggregateSummaryOf(all.items, activeDevices, t))

AggregateSummaryResponse(req, env) ==
    AggregateSummaryGathered(GatherAllItems(getAllDevices(env), env),
                             Len(getAllDevices(env)), req.t0)

----------------------------------------------------------------------------
(* GET /api/stats/aggregate/hourly-patterns and /day-of-week *)

\* the key under which the forEach files an item that has a timestamp
BucketKey(item, grouping) ==
    IF grouping = "hour" THEN <<UTCHours(item.timestamp[1])>>
    ELSE IF grouping = "hour-day" THEN <<UTCHours(item.timestamp[1]), UTCDay(item.timestamp[1])>>
    ELSE <<UTCDay(item.timestamp[1])>>

\* a forEach body that opens a new bucket for every item
FileItemNewBucket(map, item, key) ==
    Append(map, [key |-> key, plays |-> 1, duration |-> DurationOf(item)])

\* the Map built by forEach: items without a timestamp are skipped, the others
\* are added to the bucket of their key, a new key getting a new bucket at the
\* end of the Map
FileItem(map, item, key) ==
    IF \E i \in 1..Len(map) : map[i].key = key
    THEN Array([i \in 1..Len(map) |->
            IF map[i].key = key
            THEN [key |-> key, plays |-> map[i].plays + 1,
                  duration |-> map[i].duration + DurationOf(item)]
            ELSE map[i]])
    ELSE Append(map, [key |-> key, plays |-> 1, duration |-> DurationOf(item)])

RECURSIVE GroupByKey(_, _)
GroupByKey(items, grouping) ==
    IF items = <<>> THEN <<>>
    ELSE IF items[Len(items)].timestamp = Null
         THEN GroupByKey(SubSeq(items, 1, Len(items) - 1), grouping)
         ELSE FileItem(GroupByKey(SubSeq(items, 1, Len(items) - 1), grouping),
                       items[Len(items)], BucketKey(items[Len(items)], grouping))

\* Array.from(hourMap.entries()).map(...)
HourlyPatternsOf(hourMap, includeDayOfWeek) ==
    Array([i \in 1..Len(hourMap) |->
        [hour |-> hourMap[i].key[1],
         dayOfWeek |-> IF includeDayOfWeek THEN Some(hourMap[i].key[2]) ELSE Null,
         plays |-> hourMap[i].plays,
         duration |-> hourMap[i].duration]])

HourlyPatternsGathered(all, includeDayOfWeek) ==
    GatheredResponse(all,
        [patterns |-> HourlyPatternsOf(
            GroupByKey(all.items, IF includeDayOfWeek THEN "hour-day" ELSE "hour"),
            includeDayOfWeek)])

HourlyPatternsResponse(req, env) ==
    HourlyPatternsGathered(GatherAllItems(getAllDevices(env), env), req.dayOfWeek)

dayNames == <<"Sunday", "Monday", "Tuesday", "Wednesday", "Thursday", "Friday", "Saturday">>

\* Array.from(dayMap.entries()).map(...)
DayOfWeekOf(dayMap) ==
    Array([i \in 1..Len(dayMap) |->
        [dayOfWeek |-> dayMap[i].key[1],
         dayName |-> dayNames[dayMap[i].key[1] + 1],
         plays |-> dayMap[i].plays,
         duration |-> dayMap[i].duration]])

\* the buckets left in the order of the Map
DayOfWeekUnsorted(unsorted) == unsorted

\* .sort((a, b) => a.dayOfWeek - b.dayOfWeek)
DayOfWeekSorted(unsorted) ==
    SortAsc(unsorted, Array([i \in 1..Len(unsorted) |-> unsorted[i].dayOfWeek]))

DayOfWeekGathered(all) ==
    GatheredResponse(all,
        [patterns |-> DayOfWeekSorted(DayOfWeekOf(GroupByKey(all.items, "day")))])

DayOfWeekResponse(req, env) == DayOfWeekGathered(GatherAllItems(getAllDevices(env), env))

----------------------------------------------------------------------------
(* GET /api/stats/aggregate/week-comparison *)

getWeekStats(items) ==
    [plays |-> Len(items),
     duration |-> TotalDurationOf(items),
     uniqueAds |-> Cardinality(AdNamesOf(items))]

\* the items with from <= time <= to
ItemsBetweenInclusive(allItems, from, to) ==
    SelectSeq(allItems, LAMBDA item : /\ item.timestamp # Null
                                      /\ item.timestamp[1] >= from
                                      /\ item.timestamp[1] <= to)

\* the items with from <= time < to
ItemsBetween(allItems, from, to) ==
    SelectSeq(allItems, LAMBDA item : /\ item.timestamp # Null
                                      /\ item.timestamp[1] >= from
                                      /\ item.timestamp[1] < to)

WeekComparisonOf(currentWeek, previousWeek) ==
    [currentWeek |-> currentWeek,
     previousWeek |-> previousWeek,
     change |-> [plays |-> currentWeek.plays - previousWeek.plays,
                 duration |-> currentWeek.duration - previousWeek.duration,
                 uniqueAds |-> currentWeek.uniqueAds - previousWeek.uniqueAds]]

\* the current week has no upper end: every item at or after oneWeekAgo counts
WeekComparisonGathered(all, t) ==
    GatheredResponse(all,
        WeekComparisonOf(
            getWeekStats(SelectSeq(all.items,
                LAMBDA item : item.timestamp # Null /\ item.timestamp[1] >= t - 7 * DAY)),
            getWeekStats(ItemsBetween(all.items, t - 14 * DAY, t - 7 * DAY))))

WeekComparisonResponse(req, env) ==
    WeekComparisonGathered(GatherAllItems(getAllDevices(env), env), req.t0)

----------------------------------------------------------------------------
(* GET /api/stats/ads/leaderboard *)

\* A query value is Null when the parameter is missing and otherwise its
\* text, a sequence of characters.
Digits == <<"0", "1", "2", "3", "4", "5", "6", "7", "8", "9">>

IsDigit(c) == \E i \in 1..10 : Digits[i] = c

DigitValue(c) == (CHOOSE i \in 1..10 : Digits[i] = c) - 1

\* the longest prefix of the text that consists of digits
RECURSIVE DigitPrefix(_)
DigitPrefix(text) ==
    IF text = <<>> \/ ~IsDigit(Head(text)) THEN <<>>
    ELSE <<Head(text)>> \o DigitPrefix(Tail(text))

RECURSIVE ValueOfDigits(_)
ValueOfDigits(digits) ==
    IF digits = <<>> THEN 0
    ELSE 10 * ValueOfDigits(SubSeq(digits, 1, Len(digits) - 1))
         + DigitValue(digits[Len(digits)])

\* the number read from the digits after an optional sign; Null stands for NaN
SignedValue(text, digits) ==
    IF digits = <<>> THEN Null
    ELSE IF text[1] = "-" THEN Some(0 - ValueOfDigits(digits))
    ELSE Some(ValueOfDigits(digits))

\* parseInt(text): an optional sign, then digits up to the first character
\* that is none (texts do not start with white space or 0x here)
ParseInt(text) ==
    IF text # <<>> /\ text[1] \in {"+", "-"} THEN SignedValue(text, DigitPrefix(Tail(text)))
    ELSE SignedValue(text, DigitPrefix(text))

\* a default that replaces NaN only
OrTwentyIfNaN(n) == IF n = Null THEN 20 ELSE n[1]

\* n || 20, for n a number or NaN
OrTwenty(n) == IF n = Null \/ n[1] = 0 THEN 20 ELSE n[1]

\* parseInt(req.query.limit as string) || 20; parseInt(undefined) is NaN
ParseLimit(limit) == IF limit = Null THEN 20 ELSE OrTwenty(ParseInt(limit[1]))

\* req.query.sortBy || 'plays'
ParseSortBy(sortBy) == IF sortBy = Null THEN "plays" ELSE sortBy[1]

\* the names the listings of the devices put into the Set allAds, in insertion order
RECURSIVE AllAds(_)
AllAds(devices) ==
    IF devices = <<>> THEN <<>>
    ELSE LET before == AllAds(SubSeq(devices, 1, Len(devices) - 1))
             ads == ListAds(devices[Len(devices)])
         IN  before \o SelectSeq(ads, LAMBDA a : a \notin Range(before))

\* for (const deviceId of devices) { while (hasMore) {...} } of one ad: the
\* items of all devices, and the devices added to deviceSet, which happens
\* for every page whose Items is truthy
\* if (response.Items) { items.push(...response.Items); deviceSet.add(deviceId) }
\* over the pages of one device, followed by the devices after it
LeaderboardGathered(deviceId, run, rest) ==
    IF run.threw THEN [threw |-> TRUE, items |-> <<>>, deviceSet |-> {}, calls |-> run.calls]
    ELSE [threw |-> rest.threw,
          items |-> run.items \o rest.items,
          deviceSet |-> (IF \E i \in 1..Len(run.pages) : run.pages[i].Items # Null
                         THEN {deviceId} ELSE {}) \cup rest.deviceSet,
          calls |-> run.calls + rest.calls]

RECURSIVE LeaderboardAdItems(_, _, _)
LeaderboardAdItems(adFilename, devices, env) ==
    IF devices = <<>> THEN [threw |-> FALSE, items |-> <<>>, deviceSet |-> {}, calls |-> 0]
    ELSE LeaderboardGathered(
             Head(devices),
             WalkerRun(WalkerInit(Head(devices), Some(adFilename), env.pageSize),
                       FailPage(env, Head(devices), Some(adFilename))),
             LeaderboardAdItems(adFilename, Tail(devices), env))

LeaderboardErrorRow(adFilename) ==
    [adFilename |-> adFilename, totalPlays |-> 0, totalDuration |-> 0,
     averageDuration |-> Ratio(0, 1), frequency |-> Some(0), deviceCount |-> 0,
     lastPlayed |-> Null, error |-> Some(UpstreamError.error)]

\* one branch of the fan-out, with the branch's own catch
\* the row aggregated from the items of an ad and the devices in deviceSet
LeaderboardAdStats(adFilename, items, deviceSet) ==
    [adFilename |-> adFilename,
     totalPlays |-> Len(items),
     totalDuration |-> TotalDurationOf(items),
     averageDuration |-> AverageOf(TotalDurationOf(items), Len(items)),
     frequency |-> PlaysPerDay(items),
     deviceCount |-> Cardinality(deviceSet),
     lastPlayed |-> LastPlayedOf(items),
     error |-> Null]

\* the outcome of a branch whose queries ended as `got`: the try block's
\* row, or the catch block's
LeaderboardAdBranch(adFilename, got) ==
    [threw |-> FALSE,
     calls |-> got.calls,
     row |-> IF got.threw THEN LeaderboardErrorRow(adFilename)
             ELSE LeaderboardAdStats(adFilename, got.items, got.deviceSet)]

LeaderboardAdRow(adFilename, devices, env) ==
    LeaderboardAdBranch(adFilename, LeaderboardAdItems(adFilename, devices, env))

\* the field the comparator of the final sort subtracts
SortField(row, sortBy) ==
    IF sortBy = "duration" THEN row.totalDuration
    ELSE IF sortBy = "frequency" THEN (IF row.frequency = Null THEN 0 ELSE row.frequency[1])
    ELSE row.totalPlays

\* the listings are awaited one after the other, up to the first that fails;
\* 0 when none does
FirstFailingListing(devices, env) ==
    IF \A i \in 1..Len(devices) : <<"list", devices[i]>> \notin env.faults THEN 0
    ELSE CHOOSE i \in 1..Len(devices) :
             /\ <<"list", devices[i]>> \in env.faults
             /\ \A j \in 1..(i - 1) : <<"list", devices[j]>> \notin env.faults

\* Array.prototype.slice(0, end): a negative end counts from the end of the array
Slice(q, end) ==
    IF end < 0 THEN SubSeq(q, 1, Len(q) + end) ELSE SubSeq(q, 1, Min(end, Len(q)))

\* { ads: adStats.slice(0, limit), total: adStats.length } of the sorted rows
LeaderboardOf(sorted, limit) ==
    [ads |-> Slice(sorted, limit), total |-> Len(sorted)]

\* a sort whose comparator always subtracts totalPlays
LeaderboardSortedByPlays(adStats, sortBy) ==
    SortDesc(adStats, Array([i \in 1..Len(adStats) |-> adStats[i].totalPlays]))

\* adStats.sort((a, b) => { switch (sortBy) ... })
LeaderboardSorted(adStats, sortBy) ==
    SortDesc(adStats, Array([i \in 1..Len(adStats) |-> SortField(adStats[i], sortBy)]))

\* Promise.all over the branches, the sort and the slice; the device
\* listings before them were `listings` calls
LeaderboardFanOut(branches, listings, limit, sortBy) ==
    Json(LeaderboardOf(LeaderboardSorted(RowsOf(branches), sortBy), limit),
         1 + listings + SumSeq([i \in 1..Len(branches) |-> branches[i].calls]))

LeaderboardBranches(allAds, devices, env) ==
    Array([i \in 1..Len(allAds) |-> LeaderboardAdRow(allAds[i], devices, env)])

LeaderboardResponse(req, env) ==
    IF FirstFailingListing(getAllDevices(env), env) # 0
    THEN Status500(1 + FirstFailingListing(getAllDevices(env), env))
    ELSE LeaderboardFanOut(
             LeaderboardBranches(AllAds(getAllDevices(env)), getAllDevices(env), env),
             Len(getAllDevices(env)), ParseLimit(req.limit), ParseSortBy(req.sortBy))

----------------------------------------------------------------------------
(* GET /api/stats/devices/comparison *)

\* one branch of devices.map: it has no catch of its own
DeviceComparisonStats(deviceId, items) ==
    [deviceId |-> deviceId,
     totalPlays |-> Len(items),
     avgPlaysPerDay |-> PlaysPerDay(items),
     totalDuration |-> TotalDurationOf(items)]

\* the outcome of a branch whose walk ended as `run`: a throw rejects the branch
DeviceComparisonBranch(deviceId, run) ==
    [threw |-> run.threw, calls |-> run.calls,
     row |-> DeviceComparisonStats(deviceId, run.items)]

DeviceComparisonRow(deviceId, env) ==
    DeviceComparisonBranch(deviceId, getAllItemsForDevice(deviceId, env))

DeviceComparisonBranches(devices, env) ==
    Array([i \in 1..Len(devices) |-> DeviceComparisonRow(devices[i], env)])

\* Promise.all rejects as soon as one branch does, and the handler's catch answers 500
DeviceComparisonOf(branches) == FanOutResponse([devices |-> RowsOf(branches)], branches)

DeviceComparisonResponse(req, env) ==
    DeviceComparisonOf(DeviceComparisonBranches(getAllDevices(env), env))

----------------------------------------------------------------------------
(* Requests: the cached read paths                                          *)

Routes == {"summary", "ads", "aggregate-summary", "hourly-patterns", "day-of-week",
           "week-comparison", "leaderboard", "comparison"}

\* a request; the fields a route does not read stay at their defaults
Request(route, deviceId, refresh, dayOfWeek, limit, sortBy) ==
    [route |-> route, deviceId |-> deviceId, refresh |-> refresh, dayOfWeek |-> dayOfWeek,
     limit |-> limit, sortBy |-> sortBy, t0 |-> now]   \* t0: Date at the handler's start

NoRequest == [route |-> "none", deviceId |-> "", refresh |-> FALSE, dayOfWeek |-> FALSE,
              limit |-> Null, sortBy |-> Null, t0 |-> StartTime]

\* no upstream call made, so nothing for the store or the bucket to do
NoEnv == [pageSize |-> 0, faults |-> {}]

\* a response, with what the handler found and what happened upstream
NoResponse == [req |-> NoRequest, status |-> 0, body |-> Null, fromCache |-> FALSE,
               calls |-> 0, at |-> StartTime, before |-> Null, env |-> NoEnv]

\* the path and the parameters of a request, without the refresh flag
UrlOf(req) == [route |-> req.route, deviceId |-> req.deviceId, dayOfWeek |-> req.dayOfWeek,
               limit |-> req.limit, sortBy |-> req.sortBy]

NoUrl == UrlOf(NoRequest)

\* the map a route caches in
CacheOf(route) ==
    IF route = "summary" THEN deviceSummaryCache
    ELSE IF route = "ads" THEN deviceAdsCache
    ELSE aggregateCache

\* keys that leave out the parameters of the aggregate routes
CacheKeyByRoute(req) ==
    IF req.route \in {"summary", "ads"} THEN req.deviceId ELSE req.route

\* the key under which a request's response is cached
CacheKey(req) ==
    IF req.route \in {"summary", "ads"} THEN req.deviceId
    ELSE IF req.route = "hourly-patterns"
         THEN "hourly-patterns-" \o (IF req.dayOfWeek THEN "true" ELSE "false")
    ELSE IF req.route = "leaderboard"
         THEN "ads-leaderboard-" \o ToString(ParseLimit(req.limit)) \o "-" \o ParseSortBy(req.sortBy)
    ELSE IF req.route = "comparison" THEN "devices-comparison"
    ELSE req.route

\* one ttl for every route
TtlOfShort(route) == CACHE_TTL

\* the ttl a route reads its cache with
TtlOf(route) == IF route \in {"summary", "ads"} THEN CACHE_TTL ELSE AGGREGATE_CACHE_TTL

\* a lookup that does not look at the refresh flag
LookupCacheAlways(req) ==
    getCached(CacheOf(req.route), CacheKey(req), TtlOf(req.route), now)

\* if (!forceRefresh) { const cached = getCached(...) ... }
LookupCache(req) ==
    IF req.refresh THEN [data |-> Null, cache |-> CacheOf(req.route)]
    ELSE getCached(CacheOf(req.route), CacheKey(req), TtlOf(req.route), now)

\* the three maps after the map of `route` has become `map`
MapsWith(route, map) ==
    /\ deviceSummaryCache' = IF route = "summary" THEN map ELSE deviceSummaryCache
    /\ deviceAdsCache' = IF route = "ads" THEN map ELSE deviceAdsCache
    /\ aggregateCache' = IF route \notin {"summary", "ads"} THEN map ELSE aggregateCache

\* the upstream calls of a route and the response built from them
Respond(req, env) ==
    IF req.route = "summary" THEN DeviceSummaryResponse(req, env)
    ELSE IF req.route = "ads" THEN DeviceAdsResponse(req, env)
    ELSE IF req.route = "aggregate-summary" THEN AggregateSummaryResponse(req, env)
    ELSE IF req.route = "hourly-patterns" THEN HourlyPatternsResponse(req, env)
    ELSE IF req.route = "day-of-week" THEN DayOfWeekResponse(req, env)
    ELSE IF req.route = "week-comparison" THEN WeekComparisonResponse(req, env)
    ELSE IF req.route = "leaderboard" THEN LeaderboardResponse(req, env)
    ELSE DeviceComparisonResponse(req, env)

\* the upstream calls a route can make for a request, as fault targets
UpstreamCalls(req, pageSize) ==
    LET Queries(devices, filters) ==
            {<<"query", d, f, k>> : d \in devices, f \in filters, k \in 1..(Len(plays) + 1)}
        pagesExist(t) == t[1] # "query" \/ t[4] <= PagesOf(t[2], pageSize)
        all ==
            IF req.route = "summary" THEN {<<"query", req.deviceId, Null, 1>>}
            ELSE IF req.route = "ads"
                 THEN {<<"list", req.deviceId>>}
                      \cup Queries({req.deviceId}, {Some(a) : a \in Range(ListAds(req.deviceId))})
            ELSE IF req.route = "leaderboard"
                 THEN {<<"prefixes">>} \cup {<<"list", d>> : d \in Devices}
                      \cup Queries(Devices, {Some(a) : a \in Ads})
            ELSE {<<"prefixes">>} \cup Queries(Devices, {Null})
    IN  {t \in all : pagesExist(t)}

\* what the store and the bucket do during one request: the page size of the
\* store and the calls that fail
Envs(req) ==
    UNION {[pageSize : {ps}, faults : FaultSets(UpstreamCalls(req, ps), MaxFaults)] :
             ps \in PageSizes}

\* A cached read path from the request to the response: the cache lookup and,
\* on a hit, the cached response; otherwise the upstream calls, the
\* aggregation, setCached and res.json, or the catch that answers 500.
\* a hit that writes the value it serves back into the cache
ServeCachedWriteBack(req, found) ==
    /\ MapsWith(req.route, setCached(found.cache, CacheKey(req), found.data[1], now))
    /\ res' = [req |-> req, status |-> 200, body |-> found.data[1],
               fromCache |-> TRUE, calls |-> 0, at |-> now,
               before |-> EntryOf(CacheOf(req.route), CacheKey(req)), env |-> NoEnv]

\* if (cached) { return res.json(cached) }
ServeCached(req, found) ==
    /\ MapsWith(req.route, found.cache)
    /\ res' = [req |-> req, status |-> 200, body |-> found.data[1],
               fromCache |-> TRUE, calls |-> 0, at |-> now,
               before |-> EntryOf(CacheOf(req.route), CacheKey(req)), env |-> NoEnv]

\* a handler that also stores what its catch answers
ServeFreshStoreAlways(req, found, env, out) ==
    /\ MapsWith(req.route, setCached(found.cache, CacheKey(req), out.body, now))
    /\ res' = [req |-> req, status |-> out.status, body |-> out.body,
               fromCache |-> FALSE, calls |-> out.calls, at |-> now,
               before |-> EntryOf(CacheOf(req.route), CacheKey(req)), env |-> env]

\* a handler that stores a result only when no upstream call failed
ServeFreshCleanOnly(req, found, env, out) ==
    /\ MapsWith(req.route,
                IF out.status = 200 /\ env.faults = {}
                THEN setCached(found.cache, CacheKey(req), out.body, now)
                ELSE found.cache)
    /\ res' = [req |-> req, status |-> out.status, body |-> out.body,
               fromCache |-> FALSE, calls |-> out.calls, at |-> now,
               before |-> EntryOf(CacheOf(req.route), CacheKey(req)), env |-> env]

\* a handler that keeps an entry stored since it started instead of
\* overwriting it
ServeFreshKeepExisting(req, found, env, out) ==
    /\ MapsWith(req.route,
                IF out.status = 200
                   /\ ~(CacheKey(req) \in DOMAIN found.cache
                        /\ found.cache[CacheKey(req)].timestamp >= req.t0)
                THEN setCached(found.cache, CacheKey(req), out.body, now)
                ELSE found.cache)
    /\ res' = [req |-> req, status |-> out.status, body |-> out.body,
               fromCache |-> FALSE, calls |-> out.calls, at |-> now,
               before |-> EntryOf(CacheOf(req.route), CacheKey(req)), env |-> env]

\* setCached(...); res.json(result) after the upstream calls succeeded, or
\* the 500 of the catch, which leaves the cache as the lookup left it
ServeFresh(req, found, env, out) ==
    /\ MapsWith(req.route,
                IF out.status = 200
                THEN setCached(found.cache, CacheKey(req), out.body, now)
                ELSE found.cache)
    /\ res' = [req |-> req, status |-> out.status, body |-> out.body,
               fromCache |-> FALSE, calls |-> out.calls, at |-> now,
               before |-> EntryOf(CacheOf(req.route), CacheKey(req)), env |-> env]

Serve(req, found) ==
    IF found.data # Null THEN ServeCached(req, found)
    ELSE \E env \in Envs(req) : ServeFresh(req, found, env, Respond(req, env))

Handle(req) ==
    /\ UrlOf(req) = polled
    /\ received < MaxRequests
    /\ received' = received + 1
    /\ Serve(req, LookupCache(req))
    /\ UNCHANGED <<now, op, lastPutAt, plays, walk, polled, inflight>>

\* the player of a device writes a play record
Play(deviceId, adFilename) ==
    /\ Len(plays) < MaxPlays
    /\ plays' = Append(plays, [play_id |-> Len(plays) + 1, device_id |-> deviceId,
                               ad_filename |-> adFilename, timestamp |-> Some(now),
                               play_duration |-> Some(5)])
    /\ UNCHANGED <<now, cacheVars, op, lastPutAt, walk, reqVars>>

\* the requests a client sends, route by route
GetDeviceSummary ==
    \E d \in Devices, refresh \in BOOLEAN :
        Handle(Request("summary", d, refresh, FALSE, Null, Null))

GetDeviceAds ==
    \E d \in Devices, refresh \in BOOLEAN :
        Handle(Request("ads", d, refresh, FALSE, Null, Null))

GetAggregateSummary ==
    \E refresh \in BOOLEAN : Handle(Request("aggregate-summary", "", refresh, FALSE, Null, Null))

GetHourlyPatterns ==
    \E refresh \in BOOLEAN, dayOfWeek \in BOOLEAN :
        Handle(Request("hourly-patterns", "", refresh, dayOfWeek, Null, Null))

GetDayOfWeek ==
    \E refresh \in BOOLEAN : Handle(Request("day-of-week", "", refresh, FALSE, Null, Null))

GetWeekComparison ==
    \E refresh \in BOOLEAN : Handle(Request("week-comparison", "", refresh, FALSE, Null, Null))

\* the query strings sent: none, and ?limit=1&sortBy=frequency
LeaderboardQueries ==
    {[limit |-> Null, sortBy |-> Null], [limit |-> Some(<<"1">>), sortBy |-> Some("frequency")]}

GetLeaderboard ==
    \E refresh \in BOOLEAN, query \in LeaderboardQueries :
        Handle(Request("leaderboard", "", refresh, FALSE, query.limit, query.sortBy))

GetDeviceComparison ==
    \E refresh \in BOOLEAN : Handle(Request("comparison", "", refresh, FALSE, Null, Null))

\* the players in the field: each device and the ad it is showing
Players == {<<"d1", "a1.mp4">>, <<"d2", "a2.mp4">>}

Produce == \E p \in Players : Play(p[1], p[2])

\* the URLs of the cached read paths
Urls ==
    [route : {"summary", "ads"}, deviceId : Devices, dayOfWeek : {FALSE},
     limit : {Null}, sortBy : {Null}]
    \cup [route : {"aggregate-summary", "day-of-week", "week-comparison", "comparison"},
          deviceId : {""}, dayOfWeek : {FALSE}, limit : {Null}, sortBy : {Null}]
    \cup [route : {"hourly-patterns"}, deviceId : {""}, dayOfWeek : BOOLEAN,
          limit : {Null}, sortBy : {Null}]
    \cup {[route |-> "leaderboard", deviceId |-> "", dayOfWeek |-> FALSE,
           limit |-> q.limit, sortBy |-> q.sortBy] : q \in LeaderboardQueries}

----------------------------------------------------------------------------
(* The clock *)

Tick ==
    /\ now < StartTime + MaxTicks * ClockStep
    /\ now' = now + ClockStep
    /\ UNCHANGED <<cacheVars, op, lastPutAt, plays, walk, reqVars>>

----------------------------------------------------------------------------
(* Specification Spec: the server with its three caches, the cached read    *)
(* paths, the table growing under it and the clock advancing.               *)

Init ==
    /\ now = StartTime
    /\ deviceSummaryCache = <<>>
    /\ deviceAdsCache = <<>>
    /\ aggregateCache = <<>>
    /\ op = [call |-> [kind |-> "none", key |-> "", ttl |-> 0, data |-> Null,
                       at |-> StartTime, before |-> Null],
             prev |-> [kind |-> "none", key |-> "", ttl |-> 0, data |-> Null,
                       at |-> StartTime, before |-> Null]]
    /\ lastPutAt = [k \in Devices |-> Null]
    /\ plays = <<>>
    /\ walk = NoWalk
    /\ received = 0
    /\ res = NoResponse
    /\ polled \in Urls
    /\ inflight = <<>>

Next ==
    \/ Tick
    \/ Produce
    \/ GetDeviceSummary
    \/ GetDeviceAds
    \/ GetAggregateSummary
    \/ GetHourlyPatterns
    \/ GetDayOfWeek
    \/ GetWeekComparison
    \/ GetLeaderboard
    \/ GetDeviceComparison

Spec == Init /\ [][Next]_vars

----------------------------------------------------------------------------
(* Specification SpecCache: the cache helpers called directly, on one map, *)
(* with every key, value and ttl of small sets.                            *)

CacheValues == {"v1", "v2"}
CacheTtls == {CACHE_TTL, AGGREGATE_CACHE_TTL}

\* a call without the record of the call before it
Call(kind, key, ttl, data, before) ==
    [kind |-> kind, key |-> key, ttl |-> ttl, data |-> data, at |-> now, before |-> before]

NoCall == [kind |-> "none", key |-> "", ttl |-> 0, data |-> Null, at |-> StartTime, before |-> Null]
NoOp == [call |-> NoCall, prev |-> NoCall]

CallGetCached(key, ttl) ==
    LET r == getCached(deviceSummaryCache, key, ttl, now)
    IN  /\ deviceSummaryCache' = r.cache
        /\ op' = [call |-> Call("get", key, ttl, r.data, EntryOf(deviceSummaryCache, key)),
                  prev |-> op.call]
        /\ UNCHANGED <<now, deviceAdsCache, aggregateCache, lastPutAt, plays, walk, reqVars>>

CallSetCached(key, data) ==
    /\ deviceSummaryCache' = setCached(deviceSummaryCache, key, data, now)
    /\ op' = [call |-> Call("set", key, 0, Some(data), EntryOf(deviceSummaryCache, key)),
              prev |-> op.call]
    /\ lastPutAt' = [lastPutAt EXCEPT ![key] = Some(now)]
    /\ UNCHANGED <<now, deviceAdsCache, aggregateCache, plays, walk, reqVars>>

InitCache ==
    /\ now = StartTime
    /\ deviceSummaryCache = <<>>
    /\ deviceAdsCache = <<>>
    /\ aggregateCache = <<>>
    /\ op = NoOp
    /\ lastPutAt = [k \in Devices |-> Null]
    /\ plays = <<>>
    /\ walk = NoWalk
    /\ received = 0
    /\ res = NoResponse
    /\ polled = NoUrl
    /\ inflight = <<>>

NextCache ==
    \/ Tick
    \/ \E key \in Devices, ttl \in CacheTtls : CallGetCached(key, ttl)
    \/ \E key \in Devices, data \in CacheValues : CallSetCached(key, data)

SpecCache == InitCache /\ [][NextCache]_vars

----------------------------------------------------------------------------
(* Claims about the cache helpers (SpecCache) *)

AgeAt(call) == call.at - call.before[1].timestamp

\* C1: getCached returns the stored value whenever now - insertion time <= ttl
\* (an age of exactly ttl included) and leaves the entry as it is; when the age
\* is greater than ttl it returns null and that same read removes the entry.
C1_GetCachedTtl ==
    (op.call.kind = "get" /\ op.call.before # Null) =>
        IF AgeAt(op.call) <= op.call.ttl
        THEN /\ op.call.data = Some(op.call.before[1].data)
             /\ EntryOf(deviceSummaryCache, op.call.key) = op.call.before
        ELSE /\ op.call.data = Null
             /\ op.call.key \notin DOMAIN deviceSummaryCache

\* a read of an entry whose age is exactly ttl returned the value
C1_Witness ==
    /\ op.call.kind = "get"
    /\ op.call.before # Null
    /\ AgeAt(op.call) = op.call.ttl
    /\ op.call.data # Null

\* C2: setCached(k, v) followed, without a clock advance, by getCached(k, t)
\* with t > 0 returns v, whatever was stored under k before the put.
C2_PutThenGet ==
    ( /\ op.call.kind = "get"
      /\ op.prev.kind = "set"
      /\ op.prev.key = op.call.key
      /\ op.prev.at = op.call.at
      /\ op.call.ttl > 0 ) => op.call.data = op.prev.data

\* the put replaced an entry that held another value and had outlived the ttl
\* of the read that followed
C2_Witness ==
    /\ op.call.kind = "get"
    /\ op.prev.kind = "set"
    /\ op.prev.key = op.call.key
    /\ op.prev.at = op.call.at
    /\ op.prev.before # Null
    /\ AgeAt(op.prev) > op.call.ttl
    /\ Some(op.prev.before[1].data) # op.prev.data
    /\ op.call.data = op.prev.data

\* C3: a getCached(k, t) invoked when the clock has advanced by more than t
\* since the last setCached(k, .) returns null (as does a read of a key never
\* put); a stored entry always carries the time of the last put of its key,
\* so no read has refreshed it.
C3_ExpiredAfterLastPut ==
    /\ \A k \in DOMAIN deviceSummaryCache :
          lastPutAt[k] = Some(deviceSummaryCache[k].timestamp)
    /\ op.call.kind = "get" =>
          ( ( \/ lastPutAt[op.call.key] = Null
              \/ op.call.at - lastPutAt[op.call.key][1] > op.call.ttl )
            => op.call.data = Null )

\* a read hit, the clock advanced, and the next read of the key with the same
\* ttl found the entry expired: the hit had not extended its life
C3_Witness ==
    /\ op.call.kind = "get"
    /\ op.prev.kind = "get"
    /\ op.prev.key = op.call.key
    /\ op.prev.ttl = op.call.ttl
    /\ op.prev.data # Null
    /\ op.call.before # Null
    /\ op.call.at - lastPutAt[op.call.key][1] > op.call.ttl
    /\ op.call.at - op.prev.at <= op.call.ttl
    /\ op.call.data = Null

----------------------------------------------------------------------------
(* Specification SpecWalker: the pagination loop run against every table of *)
(* at most MaxRecords records and every page size up to MaxPageSize.        *)

RECURSIVE SeqsOver(_, _)
SeqsOver(S, n) ==
    IF n = 0 THEN {<<>>}
    ELSE LET shorter == SeqsOver(S, n - 1)
         IN  shorter \cup {Append(q, x) : q \in {t \in shorter : Len(t) = n - 1}, x \in S}

\* the table holding the plays named by `who`, one pair <<device, ad>> a play,
\* written one second apart, the last one at StartTime
TableOf(who) ==
    [i \in 1..Len(who) |->
        [play_id |-> i, device_id |-> who[i][1], ad_filename |-> who[i][2],
         timestamp |-> Some(StartTime - (Len(who) - i)), play_duration |-> Some(5)]]

InitWalker ==
    /\ now = StartTime
    /\ deviceSummaryCache = <<>>
    /\ deviceAdsCache = <<>>
    /\ aggregateCache = <<>>
    /\ op = NoOp
    /\ lastPutAt = [k \in Devices |-> Null]
    /\ plays \in {TableOf(who) : who \in SeqsOver(Devices \X Ads, MaxRecords)}
    /\ walk = NoWalk
    /\ received = 0
    /\ res = NoResponse
    /\ polled = NoUrl
    /\ inflight = <<>>

NextWalker ==
    \/ \E d \in Devices, f \in {Null} \cup {Some(a) : a \in Ads}, ps \in 1..MaxPageSize :
          WalkerStart(d, f, ps)
    \/ WalkerIterate
    \/ WalkerReturn

SpecWalker == InitWalker /\ [][NextWalker]_vars

----------------------------------------------------------------------------
(* Claims about the pagination walker (SpecWalker) *)

RECURSIVE Concat(_)
Concat(seqs) == IF seqs = <<>> THEN <<>> ELSE Head(seqs) \o Concat(Tail(seqs))

\* pages the store needs to deliver the records of the walk's query
PagesOfStore(w) ==
    LET n == Len(DeviceItems(w.deviceId))
    IN  IF n = 0 THEN 1 ELSE (n + w.pageSize - 1) \div w.pageSize

\* C6: the walker's first call carries no start key and each later call the
\* token returned by the call before it; every page but the last received
\* carried a token; when the walker returns, the last page carried none, it
\* has made exactly as many calls as the store has pages for the query, and
\* it returns the concatenation of the pages in page order, which is every
\* record of the query.
C6_WalkerPages ==
    /\ walk.pc # "idle" =>
          /\ Len(walk.sent) = Len(walk.pages)
          /\ \A i \in 1..Len(walk.sent) :
                walk.sent[i] = IF i = 1 THEN Null ELSE walk.pages[i - 1].LastEvaluatedKey
          /\ \A i \in 1..(Len(walk.pages) - 1) : walk.pages[i].LastEvaluatedKey # Null
          /\ walk.items = Concat([i \in 1..Len(walk.pages) |-> walk.pages[i].Items[1]])
    /\ walk.pc = "done" =>
          /\ Len(walk.sent) = PagesOfStore(walk)
          /\ walk.pages[Len(walk.pages)].LastEvaluatedKey = Null
          /\ walk.items = SelectSeq(DeviceItems(walk.deviceId),
                                    LAMBDA r : PassesFilter(r, walk.adFilter))

\* pages of 2, 2 and 1 records: 5 records returned after 3 calls
C6_Witness ==
    /\ walk.pc = "done"
    /\ walk.adFilter = Null
    /\ Len(walk.sent) = 3
    /\ [i \in 1..3 |-> Len(walk.pages[i].Items[1])] = <<2, 2, 1>>
    /\ Len(walk.items) = 5

----------------------------------------------------------------------------
(* Claims about the cached read paths (Spec). res is the last response:     *)
(* res.req the request, res.before the entry stored under its key when it   *)
(* arrived, res.calls the upstream calls the handler made for it.           *)

\* the entry now stored under the key of the last request
EntryNow == EntryOf(CacheOf(res.req.route), CacheKey(res.req))

\* the last request arrived while an entry of age <= ttl was stored under its key
FoundFresh ==
    /\ res.before # Null
    /\ res.req.t0 - res.before[1].timestamp <= TtlOf(res.req.route)

\* C4: on each of the eight cached read paths a request with refresh=true is
\* never answered from the cache: the handler makes its upstream calls, also
\* when a fresh entry is stored, and the result it answers with is stored
\* under the key with the time of the request as insertion time.
C4_RefreshBypasses ==
    (res.status # 0 /\ res.req.refresh) =>
        /\ ~res.fromCache
        /\ res.calls > 0
        /\ res.status = 200 =>
               EntryNow = Some([data |-> res.body, timestamp |-> res.req.t0])

\* a refresh arrived while a fresh entry was stored, and the entry now holds
\* a result that differs from the one stored before
C4_Witness ==
    /\ res.req.refresh
    /\ res.status = 200
    /\ FoundFresh
    /\ res.before[1].data # res.body
    /\ res.before[1].timestamp < res.req.t0
    /\ EntryNow = Some([data |-> res.body, timestamp |-> res.req.t0])

\* C5: a request without refresh that finds a fresh entry under its key is
\* answered with exactly the entry's data, without any upstream call and
\* without any write to the cache (the entry keeps its insertion time); a
\* request without refresh that finds no fresh entry makes the upstream
\* calls, and the result it answers with is the one stored under the key.
C5_HitServesCached ==
    (res.status # 0 /\ ~res.req.refresh) =>
        IF FoundFresh
        THEN /\ res.fromCache
             /\ res.status = 200
             /\ res.body = res.before[1].data
             /\ res.calls = 0
             /\ EntryNow = res.before
        ELSE /\ ~res.fromCache
             /\ res.calls > 0
             /\ res.status = 200 =>
                    EntryNow = Some([data |-> res.body, timestamp |-> res.req.t0])

\* a hit on an entry stored at an earlier time, after a play that the cached
\* response does not show
C5_Witness ==
    /\ res.fromCache
    /\ ~res.req.refresh
    /\ FoundFresh
    /\ res.before[1].timestamp < res.req.t0
    /\ \E i \in 1..Len(plays) : /\ plays[i].timestamp[1] > res.before[1].timestamp
                                 /\ plays[i].timestamp[1] <= res.req.t0
    /\ EntryNow = res.before

\* the response just sent was computed from upstream calls on `route`
Answered(route) ==
    /\ received' = received + 1
    /\ res'.req.route = route
    /\ ~res'.fromCache

\* devices that have at least one play record of the ad
DevicesPlaying(adFilename) ==
    {d \in Devices : \E k \in 1..Len(plays) : /\ plays[k].device_id = d
                                               /\ plays[k].ad_filename = adFilename}

\* C8: in a leaderboard response every ad's deviceCount is the number of
\* distinct devices that have at least one play record of that ad; a device
\* whose queries for the ad return no records does not count.
C8_DeviceCount ==
    [][(Answered("leaderboard") /\ res'.status = 200) =>
          \A i \in 1..Len(res'.body.ads) :
              res'.body.ads[i].error = Null =>
                  res'.body.ads[i].deviceCount =
                      Cardinality(DevicesPlaying(res'.body.ads[i].adFilename))]_vars

\* the devices whose walk the store failed during the last request
FailedDevices(faults) == {t[2] : t \in {u \in faults : u[1] = "query"}}

\* C10: in the device comparison a store failure while gathering one
\* device's records is caught locally: the response is a success, it has a
\* row for every device, and the row of the device that failed is a degraded
\* one (zeroed statistics and an error marker).
C10_DeviceFailureIsLocal ==
    (res.req.route = "comparison" /\ ~res.fromCache /\ FailedDevices(res.env.faults) # {}) =>
        /\ res.status = 200
        /\ \A d \in FailedDevices(res.env.faults) :
              \E i \in 1..Len(res.body.devices) :
                  /\ res.body.devices[i].deviceId = d
                  /\ res.body.devices[i].totalPlays = 0
                  /\ "error" \in DOMAIN res.body.devices[i]

----------------------------------------------------------------------------
(* Specification SpecSummary: the device summary requested against every    *)
(* table of at most MaxRecords records of one ad, written 25 hours, 24       *)
(* hours, one hour or no time before the request, under every page size.    *)

SummaryAges == {0, HOUR, 24 * HOUR, 25 * HOUR}

\* the table holding the plays named by `who`, one pair <<device, age>> a play
SummaryTableOf(who) ==
    [i \in 1..Len(who) |->
        [play_id |-> i, device_id |-> who[i][1], ad_filename |-> "a1.mp4",
         timestamp |-> Some(StartTime - who[i][2]), play_duration |-> Some(5)]]

\* the index keeps the records of a device in the order of their timestamps
InTimeOrder(who) == \A i \in 1..(Len(who) - 1) : who[i][2] >= who[i + 1][2]

InitSummary ==
    /\ now = StartTime
    /\ deviceSummaryCache = <<>>
    /\ deviceAdsCache = <<>>
    /\ aggregateCache = <<>>
    /\ op = NoOp
    /\ lastPutAt = [k \in Devices |-> Null]
    /\ plays \in {SummaryTableOf(who) :
                    who \in {w \in SeqsOver(Devices \X SummaryAges, MaxRecords) : InTimeOrder(w)}}
    /\ walk = NoWalk
    /\ received = 0
    /\ res = NoResponse
    /\ polled \in {u \in Urls : u.route = "summary"}
    /\ inflight = <<>>

NextSummary == GetDeviceSummary

SpecSummary == InitSummary /\ [][NextSummary]_vars

----------------------------------------------------------------------------
(* Claims about the device summary (SpecSummary) *)

\* C7: on a cache miss the device summary's plays24hr is the number of the
\* device's play records with timestamp >= now - 24h and plays1hr the
\* number with timestamp >= now - 1h, whatever the table holds and however
\* many pages the store needs for the matching records; so plays1hr <=
\* plays24hr.
C7_SummaryCounts ==
    (res.req.route = "summary" /\ ~res.fromCache /\ res.status = 200) =>
        /\ res.body.plays24hr =
              Len(DeviceItemsSince(res.req.deviceId, res.req.t0 - 24 * HOUR))
        /\ res.body.plays1hr =
              Len(DeviceItemsSince(res.req.deviceId, res.req.t0 - HOUR))
        /\ res.body.plays1hr <= res.body.plays24hr

----------------------------------------------------------------------------
(* Specification SpecFanOut: one request to a per-ad fan-out (device ads or  *)
(* leaderboard) against every table of at most MaxPlays records, under      *)
(* every page size and every set of at most MaxFaults failing calls.        *)

InitFanOut ==
    /\ now = StartTime
    /\ deviceSummaryCache = <<>>
    /\ deviceAdsCache = <<>>
    /\ aggregateCache = <<>>
    /\ op = NoOp
    /\ lastPutAt = [k \in Devices |-> Null]
    /\ plays \in {TableOf(who) : who \in SeqsOver(Devices \X Ads, MaxPlays)}
    /\ walk = NoWalk
    /\ received = 0
    /\ res = NoResponse
    /\ polled \in {u \in Urls : u.route \in {"ads", "leaderboard"}}
    /\ inflight = <<>>

NextFanOut ==
    \/ received = 0 /\ GetDeviceAds
    \/ received = 0 /\ GetLeaderboard

SpecFanOut == InitFanOut /\ [][NextFanOut]_vars

----------------------------------------------------------------------------
(* Claims about the per-ad fan-outs (SpecFanOut) *)

\* the ads whose query the store failed during the last request
FailedAds(faults) == {t[3][1] : t \in {u \in faults : u[1] = "query" /\ u[3] # Null}}

\* no listing of the bucket failed
ListingsOk(faults) == \A t \in faults : t[1] = "query"

\* the rows of the response to req when no upstream call fails and the
\* response is not cut to a limit
CleanRows(req, env) ==
    Respond([req EXCEPT !.limit = Null], [env EXCEPT !.faults = {}]).body.ads

\* the row of a failed branch: zeroed statistics and an error string
Degraded(row) ==
    /\ row.totalPlays = 0
    /\ row.totalDuration = 0
    /\ row.averageDuration = Ratio(0, 1)
    /\ row.lastPlayed = Null
    /\ row.error # Null

\* C9: in the per-ad fan-outs of the device ads endpoint and of the
\* leaderboard, a store failure on a page of one ad's query is caught inside
\* that ad's branch: the ad's row has totalPlays, totalDuration and
\* averageDuration 0, lastPlayed null and an error string, every other ad's
\* row is the row computed when nothing fails, and the response is a success.
C9_AdFailureIsLocal ==
    (res.req.route \in {"ads", "leaderboard"} /\ ListingsOk(res.env.faults)) =>
        /\ res.status = 200
        /\ \A i \in 1..Len(res.body.ads) :
              IF res.body.ads[i].adFilename \in FailedAds(res.env.faults)
              THEN Degraded(res.body.ads[i])
              ELSE \E j \in 1..Len(CleanRows(res.req, res.env)) :
                      res.body.ads[i] = CleanRows(res.req, res.env)[j]

\* the query of one ad failed on its second page and the response is a
\* success that carries that ad's degraded row next to the row of an ad that
\* has plays
C9_Witness ==
    /\ res.req.route \in {"ads", "leaderboard"}
    /\ ~res.fromCache
    /\ res.status = 200
    /\ \E t \in res.env.faults : t[1] = "query" /\ t[4] = 2
    /\ \E i, j \in 1..Len(res.body.ads) :
          /\ res.body.ads[i].adFilename \in FailedAds(res.env.faults)
          /\ Degraded(res.body.ads[i])
          /\ res.body.ads[j].adFilename \notin FailedAds(res.env.faults)
          /\ res.body.ads[j].error = Null
          /\ res.body.ads[j].totalPlays > 0

----------------------------------------------------------------------------
(* Claims about upstream failures outside the fan-out branches (Spec) *)

\* the failing calls of the last request that are not made inside a branch of
\* a fan-out: the listings of the bucket, and the queries of the routes that
\* have no fan-out
OutsideFanOut(req, faults) ==
    {t \in faults : \/ t[1] \in {"prefixes", "list"}
                    \/ req.route \notin {"ads", "leaderboard", "comparison"}}

\* C11: a request during which a store or bucket call outside the fan-out
\* branches fails is answered with status 500 and the upstream message and
\* code; so is a cross-device aggregate request whose listing of the
\* bucket's prefixes fails.
C11_UpstreamFailureIs500 ==
    (res.status # 0 /\ ~res.fromCache /\ OutsideFanOut(res.req, res.env.faults) # {}) =>
        /\ res.status = 500
        /\ res.body = UpstreamError

\* every failure outside the branches other than that of the listing of the
\* prefixes is answered with 500
OtherFailuresAre500 ==
    ( /\ res.status # 0
      /\ ~res.fromCache
      /\ <<"prefixes">> \notin res.env.faults
      /\ OutsideFanOut(res.req, res.env.faults) # {} ) =>
        /\ res.status = 500
        /\ res.body = UpstreamError

----------------------------------------------------------------------------
(* POST /api/stats: the generic read of a table. A field of the JSON body   *)
(* is Null when the body does not carry it (undefined after the             *)
(* destructuring) and Some(value) when it does.                             *)

\* the truthiness of a body field: undefined and '' are falsy
Truthy(field) == field # Null /\ field[1] # ""

\* const { limit = 100 } = req.body
LimitOf(body) == IF body.limit = Null THEN 100 ELSE body.limit[1]

\* conditions.join(' AND ')
RECURSIVE Join(_, _)
Join(conditions, separator) ==
    IF Len(conditions) = 0 THEN ""
    ELSE IF Len(conditions) = 1 THEN conditions[1]
    ELSE conditions[1] \o separator \o Join(Tail(conditions), separator)

\* a builder state: the attribute names, the attribute values, the conditions
NoCondition == [attrNames |-> <<>>, attrValues |-> <<>>, conditions |-> <<>>]

\* the partition key condition (required)
PartitionCondition(body) ==
    [attrNames |-> ("#pk" :> body.partitionKey[1]),
     attrValues |-> (":pk" :> body.partitionValue[1]),
     conditions |-> <<"#pk = :pk">>]

\* the sort key branch with the exact match tested before the range
SortConditionExactFirst(body) ==
    IF ~Truthy(body.sortKey) THEN NoCondition
    ELSE IF body.sortValue # Null
    THEN [attrNames |-> ("#sk" :> body.sortKey[1]),
          attrValues |-> (":sk" :> body.sortValue[1]),
          conditions |-> <<"#sk = :sk">>]
    ELSE IF body.sortValueStart # Null /\ body.sortValueEnd # Null
    THEN [attrNames |-> ("#sk" :> body.sortKey[1]),
          attrValues |-> (":sk_start" :> body.sortValueStart[1]) @@
                         (":sk_end" :> body.sortValueEnd[1]),
          conditions |-> <<"#sk BETWEEN :sk_start AND :sk_end">>]
    ELSE IF body.sortValueStart # Null
    THEN [attrNames |-> ("#sk" :> body.sortKey[1]),
          attrValues |-> (":sk_start" :> body.sortValueStart[1]),
          conditions |-> <<"#sk >= :sk_start">>]
    ELSE IF body.sortValueEnd # Null
    THEN [attrNames |-> ("#sk" :> body.sortKey[1]),
          attrValues |-> (":sk_end" :> body.sortValueEnd[1]),
          conditions |-> <<"#sk <= :sk_end">>]
    ELSE [attrNames |-> ("#sk" :> body.sortKey[1]), attrValues |-> <<>>, conditions |-> <<>>]

\* if (sortKey) { attrNames['#sk'] = sortKey; if ... else if ... }
SortCondition(body) ==
    IF ~Truthy(body.sortKey) THEN NoCondition
    ELSE IF body.sortValueStart # Null /\ body.sortValueEnd # Null
    THEN [attrNames |-> ("#sk" :> body.sortKey[1]),
          attrValues |-> (":sk_start" :> body.sortValueStart[1]) @@
                         (":sk_end" :> body.sortValueEnd[1]),
          conditions |-> <<"#sk BETWEEN :sk_start AND :sk_end">>]
    ELSE IF body.sortValue # Null
    THEN [attrNames |-> ("#sk" :> body.sortKey[1]),
          attrValues |-> (":sk" :> body.sortValue[1]),
          conditions |-> <<"#sk = :sk">>]
    ELSE IF body.sortValueStart # Null
    THEN [attrNames |-> ("#sk" :> body.sortKey[1]),
          attrValues |-> (":sk_start" :> body.sortValueStart[1]),
          conditions |-> <<"#sk >= :sk_start">>]
    ELSE IF body.sortValueEnd # Null
    THEN [attrNames |-> ("#sk" :> body.sortKey[1]),
          attrValues |-> (":sk_end" :> body.sortValueEnd[1]),
          conditions |-> <<"#sk <= :sk_end">>]
    ELSE [attrNames |-> ("#sk" :> body.sortKey[1]), attrValues |-> <<>>, conditions |-> <<>>]

\* new QueryCommand(queryParams), IndexName being set only when indexName is truthy
QueryCommandOf(body, partition, sort) ==
    [kind |-> "Query",
     TableName |-> body.tableName[1],
     KeyConditionExpression |-> Join(partition.conditions \o sort.conditions, " AND "),
     ExpressionAttributeNames |-> partition.attrNames @@ sort.attrNames,
     ExpressionAttributeValues |-> partition.attrValues @@ sort.attrValues,
     Limit |-> LimitOf(body),
     IndexName |-> IF Truthy(body.indexName) THEN body.indexName ELSE Null]

\* new ScanCommand({ TableName, Limit })
ScanCommandOf(body) ==
    [kind |-> "Scan", TableName |-> body.tableName[1], Limit |-> LimitOf(body)]

\* if (partitionKey && partitionValue !== undefined) {...} else {...}
CommandOf(body) ==
    IF Truthy(body.partitionKey) /\ body.partitionValue # Null
    THEN QueryCommandOf(body, PartitionCondition(body), SortCondition(body))
    ELSE ScanCommandOf(body)

\* the store deciding whether an item satisfies the key condition of a Query
KeyConditionHolds(item, command) ==
    /\ item[command.ExpressionAttributeNames["#pk"]] = command.ExpressionAttributeValues[":pk"]
    /\ IF command.KeyConditionExpression = "#pk = :pk" THEN TRUE
       ELSE IF command.KeyConditionExpression = "#pk = :pk AND #sk BETWEEN :sk_start AND :sk_end"
       THEN /\ item[command.ExpressionAttributeNames["#sk"]][1]
                  >= command.ExpressionAttributeValues[":sk_start"]
            /\ item[command.ExpressionAttributeNames["#sk"]][1]
                  <= command.ExpressionAttributeValues[":sk_end"]
       ELSE IF command.KeyConditionExpression = "#pk = :pk AND #sk = :sk"
       THEN item[command.ExpressionAttributeNames["#sk"]][1]
                = command.ExpressionAttributeValues[":sk"]
       ELSE IF command.KeyConditionExpression = "#pk = :pk AND #sk >= :sk_start"
       THEN item[command.ExpressionAttributeNames["#sk"]][1]
                >= command.ExpressionAttributeValues[":sk_start"]
       ELSE IF command.KeyConditionExpression = "#pk = :pk AND #sk <= :sk_end"
       THEN item[command.ExpressionAttributeNames["#sk"]][1]
                <= command.ExpressionAttributeValues[":sk_end"]
       ELSE FALSE

\* the items a command reads: all of a Scan, those of the key condition of a Query
ItemsRead(command) ==
    IF command.kind = "Scan" THEN plays
    ELSE SelectSeq(plays, LAMBDA item : KeyConditionHolds(item, command))

\* docClient.send(command) when it succeeds: at most Limit of the items read
SendResult(read, limit) ==
    [Items |-> Some(SubSeq(read, 1, Min(limit, Len(read)))),
     Count |-> Min(limit, Len(read)),
     ScannedCount |-> Min(limit, Len(read))]

\* res.json({ items: response.Items || [], count: response.Count || 0, ... })
StatsBodyOf(response) ==
    [items |-> IF response.Items = Null THEN <<>> ELSE response.Items[1],
     count |-> response.Count,
     scannedCount |-> response.ScannedCount]

\* return res.status(400).json({ error: 'Table name is required' })
Status400 == [status |-> 400, body |-> [error |-> "Table name is required"], calls |-> 0]

\* the handler after the command is built: the send and the response, or the
\* catch that answers 500
StatsSent(command, env) ==
    IF <<"send">> \in env.faults THEN Status500(1)
    ELSE Json(StatsBodyOf(SendResult(ItemsRead(command), command.Limit)), 1)

PostStatsResponse(body, env) ==
    IF ~Truthy(body.tableName) THEN Status400 ELSE StatsSent(CommandOf(body), env)

\* the request of a POST /api/stats with its JSON body
StatsRequest(body) ==
    [route |-> "stats", deviceId |-> "", refresh |-> FALSE, dayOfWeek |-> FALSE,
     limit |-> Null, sortBy |-> Null, t0 |-> now, body |-> body]

StatsUrl == [route |-> "stats", deviceId |-> "", dayOfWeek |-> FALSE,
             limit |-> Null, sortBy |-> Null]

\* the send of a POST /api/stats succeeds or fails
StatsEnvs == [pageSize : {0}, faults : SUBSET {<<"send">>}]

\* the response sent and the command built for it, if one was built
StatsServe(body, env, out) ==
    /\ res' = [req |-> StatsRequest(body), status |-> out.status, body |-> out.body,
               fromCache |-> FALSE, calls |-> out.calls, at |-> now, before |-> Null,
               env |-> env,
               command |-> IF Truthy(body.tableName) THEN Some(CommandOf(body)) ELSE Null]
    /\ received' = received + 1
    /\ UNCHANGED <<now, cacheVars, op, lastPutAt, plays, walk, polled, inflight>>

PostStats(body) ==
    /\ polled = StatsUrl
    /\ received < MaxRequests
    /\ \E env \in StatsEnvs : StatsServe(body, env, PostStatsResponse(body, env))

----------------------------------------------------------------------------
(* Specification SpecStats: POST /api/stats with every body of a small set  *)
(* of bodies, against every table of at most MaxPlays records.              *)

\* the bodies sent: every field absent or present; a partition value that is
\* present can be the empty string
StatsBodies ==
    [tableName : {Null, Some("attentv-ad-plays-prod")},
     limit : {Null, Some(1)},
     partitionKey : {Null, Some("device_id")},
     partitionValue : {Null, Some(""), Some("d1")},
     sortKey : {Null, Some("timestamp")},
     sortValue : {Null, Some(StartTime)},
     sortValueStart : {Null, Some(StartTime - 1)},
     sortValueEnd : {Null, Some(StartTime)},
     indexName : {Null, Some("device-index")}]

InitStats ==
    /\ now = StartTime
    /\ deviceSummaryCache = <<>>
    /\ deviceAdsCache = <<>>
    /\ aggregateCache = <<>>
    /\ op = NoOp
    /\ lastPutAt = [k \in Devices |-> Null]
    /\ plays \in {TableOf(who) : who \in SeqsOver(Devices \X Ads, MaxPlays)}
    /\ walk = NoWalk
    /\ received = 0
    /\ res = NoResponse
    /\ polled = StatsUrl
    /\ inflight = <<>>

NextStats == received = 0 /\ \E body \in StatsBodies : PostStats(body)

SpecStats == InitStats /\ [][NextStats]_vars

----------------------------------------------------------------------------
(* Claims about POST /api/stats and the error responses (SpecStats) *)

\* C12: every error response has a body with an error message and a code;
\* its status is 500, except for a POST /api/stats without tableName, whose
\* status is 400 and whose body has the same two fields.
C12_ErrorBodyShape ==
    res.status >= 400 =>
        /\ {"error", "code"} \subseteq DOMAIN res.body
        /\ res.status = IF res.req.route = "stats" /\ ~Truthy(res.req.body.tableName)
                        THEN 400 ELSE 500

\* the sort-key part of the key condition that the precedence selects
SortPartOf(body) ==
    IF body.sortKey = Null THEN ""
    ELSE IF body.sortValueStart # Null /\ body.sortValueEnd # Null
         THEN " AND #sk BETWEEN :sk_start AND :sk_end"
    ELSE IF body.sortValue # Null THEN " AND #sk = :sk"
    ELSE IF body.sortValueStart # Null THEN " AND #sk >= :sk_start"
    ELSE IF body.sortValueEnd # Null THEN " AND #sk <= :sk_end"
    ELSE ""

\* the records the selected condition asks for
Selected(body) ==
    SelectSeq(plays, LAMBDA r :
        /\ r[body.partitionKey[1]] = body.partitionValue[1]
        /\ IF body.sortKey = Null THEN TRUE
           ELSE IF body.sortValueStart # Null /\ body.sortValueEnd # Null
                THEN /\ r[body.sortKey[1]][1] >= body.sortValueStart[1]
                     /\ r[body.sortKey[1]][1] <= body.sortValueEnd[1]
           ELSE IF body.sortValue # Null THEN r[body.sortKey[1]][1] = body.sortValue[1]
           ELSE IF body.sortValueStart # Null
                THEN r[body.sortKey[1]][1] >= body.sortValueStart[1]
           ELSE IF body.sortValueEnd # Null
                THEN r[body.sortKey[1]][1] <= body.sortValueEnd[1]
           ELSE TRUE)

\* with a partition key and a defined partition value
IsKeyed(body) == Truthy(body.partitionKey) /\ body.partitionValue # Null

\* C20: POST /api/stats with a partitionKey and a defined partitionValue
\* sends a Query whose key condition is the partition equality plus at most
\* one sort-key condition, chosen by the precedence BETWEEN (start and end
\* given), equality (sortValue), >= (start), <= (end), and none without
\* sortKey; the items answered are the first `limit` records that satisfy
\* that condition. Without a partition key, or with partitionValue
\* undefined, it sends a Scan with the limit.
C20_KeyCondition ==
    (res.req.route = "stats" /\ res.command # Null) =>
        IF IsKeyed(res.req.body)
        THEN /\ res.command[1].kind = "Query"
             /\ res.command[1].KeyConditionExpression = "#pk = :pk" \o SortPartOf(res.req.body)
             /\ res.command[1].ExpressionAttributeNames["#pk"] = res.req.body.partitionKey[1]
             /\ res.command[1].ExpressionAttributeValues[":pk"] = res.req.body.partitionValue[1]
             /\ res.command[1].Limit = LimitOf(res.req.body)
             /\ res.status = 200 =>
                    res.body.items =
                        SubSeq(Selected(res.req.body), 1,
                               Min(LimitOf(res.req.body), Len(Selected(res.req.body))))
        ELSE /\ res.command[1] = [kind |-> "Scan", TableName |-> res.req.body.tableName[1],
                                  Limit |-> LimitOf(res.req.body)]
             /\ res.status = 200 =>
                    res.body.items = SubSeq(plays, 1, Min(LimitOf(res.req.body), Len(plays)))

\* a body that carries sortValue, sortValueStart and sortValueEnd was answered
\* with the two records of the range, one of which the equality would exclude
C20_Witness ==
    /\ res.req.route = "stats"
    /\ res.status = 200
    /\ IsKeyed(res.req.body)
    /\ res.req.body.sortKey # Null
    /\ res.req.body.sortValue # Null
    /\ res.req.body.sortValueStart # Null
    /\ res.req.body.sortValueEnd # Null
    /\ res.command[1].KeyConditionExpression = "#pk = :pk AND #sk BETWEEN :sk_start AND :sk_end"
    /\ Len(res.body.items) = 2
    /\ \E i \in 1..2 : res.body.items[i].timestamp # res.req.body.sortValue

----------------------------------------------------------------------------
(* Specification SpecAggregate: one request to an aggregation, answered     *)
(* while every upstream call succeeds, against every table of at most       *)
(* MaxItems records drawn from the records that matter to the route; and    *)
(* the leaderboard's sort and slice applied to every array of at most       *)
(* MaxItems ad rows.                                                        *)

\* the store answers in pages of MaxPageSize - 1 records and nothing fails
QuietEnv == [pageSize |-> MaxPageSize - 1, faults |-> {}]

ServeQuiet(req, found) ==
    IF found.data # Null THEN ServeCached(req, found)
    ELSE ServeFresh(req, found, QuietEnv, Respond(req, QuietEnv))

\* a request handled while every upstream call succeeds
HandleQuiet(req) ==
    /\ UrlOf(req) = polled
    /\ received < MaxRequests
    /\ received' = received + 1
    /\ ServeQuiet(req, LookupCache(req))
    /\ UNCHANGED <<now, op, lastPutAt, plays, walk, polled, inflight>>

\* the table holding the given records of device d1, in the given order
ItemsTableOf(records) ==
    [i \in 1..Len(records) |->
        [play_id |-> i, device_id |-> "d1", ad_filename |-> records[i].ad_filename,
         timestamp |-> records[i].timestamp, play_duration |-> records[i].play_duration]]

\* records around the two 7-day boundaries of the week comparison: after
\* now, at now, inside the current week, at and just before now - 7d, inside
\* the previous week, at and just before now - 14d, and without a timestamp
WeekTimes ==
    {Null, Some(StartTime + DAY), Some(StartTime), Some(StartTime - 3 * DAY),
     Some(StartTime - 7 * DAY), Some(StartTime - 7 * DAY - 1), Some(StartTime - 10 * DAY),
     Some(StartTime - 14 * DAY), Some(StartTime - 14 * DAY - 1)}

WeekRecords ==
    {[ad_filename |-> "a1.mp4", timestamp |-> t, play_duration |-> Some(5)] : t \in WeekTimes}
    \cup {[ad_filename |-> "a2.mp4", timestamp |-> t, play_duration |-> Null] : t \in WeekTimes}

\* records at 03:00 and 14:00 of the day of StartTime (a Tuesday), at 03:00
\* of the Wednesday after it, at 14:00 of the Sunday before it, and without a
\* timestamp; with and without a duration
PatternTimes ==
    {Null, Some(StartTime + 3 * HOUR), Some(StartTime + 14 * HOUR),
     Some(StartTime + DAY + 3 * HOUR), Some(StartTime - 2 * DAY + 14 * HOUR)}

PatternRecords ==
    [ad_filename : {"a1.mp4"}, timestamp : PatternTimes, play_duration : {Null, Some(5)}]

\* records of the two ads of device d1, at two times or without a
\* timestamp, with and without a duration
AdRecords ==
    [ad_filename : {"a1.mp4", "a2.mp4"},
     timestamp : {Null, Some(StartTime - HOUR), Some(StartTime)},
     play_duration : {Null, Some(5)}]

\* the records that matter to a route
RecordsFor(route) ==
    IF route = "week-comparison" THEN WeekRecords
    ELSE IF route \in {"hourly-patterns", "day-of-week"} THEN PatternRecords
    ELSE IF route = "ads" THEN AdRecords
    ELSE {}

\* the query strings of the leaderboard: limit missing, 1, 2 and -1; sortBy
\* missing, duration, frequency and a value that is none of the three
SortQueries ==
    [limit : {Null, Some(<<"1">>), Some(<<"2">>), Some(<<"-", "1">>)},
     sortBy : {Null, Some("duration"), Some("frequency"), Some("name")}]

AggregateUrls ==
    {u \in Urls : \/ u.route \in {"hourly-patterns", "day-of-week", "week-comparison"}
                  \/ u.route = "ads" /\ u.deviceId = "d1"}
    \cup {[route |-> "leaderboard", deviceId |-> "", dayOfWeek |-> FALSE,
           limit |-> q.limit, sortBy |-> q.sortBy] : q \in SortQueries}

\* the rows given to the sort: the fields the comparator reads and the name
AdRows ==
    [totalPlays : {10, 20, 30}, totalDuration : {5, 50}, frequency : {Some(1), Some(2)}]

AdStatsOf(rows) ==
    [i \in 1..Len(rows) |->
        [adFilename |-> "ad" \o ToString(i), totalPlays |-> rows[i].totalPlays,
         totalDuration |-> rows[i].totalDuration, frequency |-> rows[i].frequency]]

\* the end of the leaderboard handler applied to the rows adStats: the sort,
\* the slice and the response
SortLeaderboard(adStats) ==
    /\ polled.route = "leaderboard"
    /\ received < MaxRequests
    /\ received' = received + 1
    /\ res' = [req |-> Request("leaderboard", "", TRUE, FALSE, polled.limit, polled.sortBy),
               status |-> 200,
               body |-> LeaderboardOf(LeaderboardSorted(adStats, ParseSortBy(polled.sortBy)),
                                      ParseLimit(polled.limit)),
               fromCache |-> FALSE, calls |-> 0, at |-> now, before |-> Null,
               env |-> QuietEnv, adStats |-> adStats]
    /\ UNCHANGED <<now, cacheVars, op, lastPutAt, plays, walk, polled, inflight>>

InitAggregate ==
    /\ now = StartTime
    /\ deviceSummaryCache = <<>>
    /\ deviceAdsCache = <<>>
    /\ aggregateCache = <<>>
    /\ op = NoOp
    /\ lastPutAt = [k \in Devices |-> Null]
    /\ walk = NoWalk
    /\ received = 0
    /\ res = NoResponse
    /\ polled \in AggregateUrls
    /\ inflight = <<>>
    /\ plays \in {ItemsTableOf(records) : records \in SeqsOver(RecordsFor(polled.route), MaxItems)}

NextAggregate ==
    \/ received = 0 /\ \E d \in Devices :
                          HandleQuiet(Request("ads", d, FALSE, FALSE, Null, Null))
    \/ received = 0 /\ \E dayOfWeek \in BOOLEAN :
                          HandleQuiet(Request("hourly-patterns", "", FALSE, dayOfWeek, Null, Null))
    \/ received = 0 /\ HandleQuiet(Request("day-of-week", "", FALSE, FALSE, Null, Null))
    \/ received = 0 /\ HandleQuiet(Request("week-comparison", "", FALSE, FALSE, Null, Null))
    \/ received = 0 /\ polled.route = "leaderboard"
                     /\ \E rows \in SeqsOver(AdRows, MaxItems) : SortLeaderboard(AdStatsOf(rows))

SpecAggregate == InitAggregate /\ [][NextAggregate]_vars

----------------------------------------------------------------------------
(* Claims about the week comparison (SpecAggregate) *)

\* the sum of the durations of the records at the positions I of the table
RECURSIVE DurationSum(_)
DurationSum(I) ==
    IF I = {} THEN 0
    ELSE DurationOf(plays[CHOOSE i \in I : TRUE]) + DurationSum(I \ {CHOOSE i \in I : TRUE})

\* the statistics of the records at the positions I of the table
StatsOver(I) ==
    [plays |-> Cardinality(I),
     duration |-> DurationSum(I),
     uniqueAds |-> Cardinality({plays[i].ad_filename : i \in I})]

\* positions of the records with a timestamp from lo up to hi, both included
Within(lo, hi) ==
    {i \in 1..Len(plays) : /\ plays[i].timestamp # Null
                           /\ plays[i].timestamp[1] >= lo
                           /\ plays[i].timestamp[1] <= hi}

\* positions of the records with a timestamp at or after lo
From(lo) ==
    {i \in 1..Len(plays) : plays[i].timestamp # Null /\ plays[i].timestamp[1] >= lo}

WeekAnswered == res.req.route = "week-comparison" /\ res.status = 200

\* C13: currentWeek covers exactly the records with now - 7d <= t <= now, so
\* a record with a timestamp later than now is not counted in it, and
\* previousWeek covers exactly those with now - 14d <= t < now - 7d.
C13_CurrentWeekWindow ==
    WeekAnswered =>
        /\ res.body.currentWeek = StatsOver(Within(res.req.t0 - 7 * DAY, res.req.t0))
        /\ res.body.previousWeek =
               StatsOver(Within(res.req.t0 - 14 * DAY, res.req.t0 - 7 * DAY - 1))

\* C14: no record is counted in both weeks and no record with
\* now - 14d <= t is counted in neither: currentWeek is computed from the
\* records with t >= now - 7d (one exactly at now - 7d included), previousWeek
\* from those with now - 14d <= t < now - 7d (one exactly at now - 14d
\* included), a record without a timestamp is in neither, the plays of the
\* two weeks add up to the number of records with t >= now - 14d, and change
\* is the fieldwise difference currentWeek - previousWeek.
C14_WeekPartition ==
    WeekAnswered =>
        /\ res.body.currentWeek = StatsOver(From(res.req.t0 - 7 * DAY))
        /\ res.body.previousWeek =
               StatsOver(From(res.req.t0 - 14 * DAY) \ From(res.req.t0 - 7 * DAY))
        /\ res.body.currentWeek.plays + res.body.previousWeek.plays
               = Cardinality(From(res.req.t0 - 14 * DAY))
        /\ res.body.change =
               [plays |-> res.body.currentWeek.plays - res.body.previousWeek.plays,
                duration |-> res.body.currentWeek.duration - res.body.previousWeek.duration,
                uniqueAds |-> res.body.currentWeek.uniqueAds - res.body.previousWeek.uniqueAds]

\* a record exactly at now - 7d, one exactly at now - 14d and one without a
\* timestamp: one play in each week and a change of 0 plays
C14_Witness ==
    /\ WeekAnswered
    /\ ~res.fromCache
    /\ Len(plays) = 3
    /\ {plays[i].timestamp : i \in 1..3} =
           {Some(res.req.t0 - 7 * DAY), Some(res.req.t0 - 14 * DAY), Null}
    /\ res.body.currentWeek.plays = 1
    /\ res.body.previousWeek.plays = 1
    /\ res.body.change.plays = 0

----------------------------------------------------------------------------
(* Claims about the hourly and the day-of-week patterns (SpecAggregate) *)

\* positions of the records of the table that have a timestamp
Timestamped == {i \in 1..Len(plays) : plays[i].timestamp # Null}

\* the UTC hour of day and the UTC weekday (0 = Sunday) of a time in seconds
\* since 1 January 1970, a Thursday
HourOfDay(t) == (t % DAY) \div HOUR
Weekday(t) == (4 + t \div DAY) % 7

\* positions of the timestamped records at the given hour, on any weekday
\* when day is Null
AtHour(hour, day) ==
    {i \in Timestamped : /\ HourOfDay(plays[i].timestamp[1]) = hour
                         /\ day # Null => Weekday(plays[i].timestamp[1]) = day[1]}

OnWeekday(day) == {i \in Timestamped : Weekday(plays[i].timestamp[1]) = day}

HourlyAnswered == res.req.route = "hourly-patterns" /\ res.status = 200

\* C15: the hourly-patterns response with dayOfWeek=false has a bucket for
\* every hour 0..23, with plays 0 and duration 0 for the hours in which no
\* record falls, for every record set including the empty one.
C15_AllHoursPresent ==
    (HourlyAnswered /\ ~res.req.dayOfWeek) =>
        \A hour \in 0..23 :
            \E i \in 1..Len(res.body.patterns) :
                /\ res.body.patterns[i].hour = hour
                /\ res.body.patterns[i].plays = Cardinality(AtHour(hour, Null))
                /\ res.body.patterns[i].duration = DurationSum(AtHour(hour, Null))

\* C16: every record that has a timestamp is in exactly one bucket, keyed by
\* its UTC hour (with dayOfWeek=true by its UTC hour and UTC weekday): no
\* two buckets share a key, every record's key has a bucket, a bucket's plays
\* is the number of records with its key and its duration the sum of their
\* durations (an absent duration counting 0), and the plays of all buckets
\* add up to the number of timestamped records.
C16_HourlyBuckets ==
    HourlyAnswered =>
        /\ \A i, j \in 1..Len(res.body.patterns) :
              ( /\ res.body.patterns[i].hour = res.body.patterns[j].hour
                /\ res.body.patterns[i].dayOfWeek = res.body.patterns[j].dayOfWeek ) => i = j
        /\ \A i \in 1..Len(res.body.patterns) :
              /\ (res.body.patterns[i].dayOfWeek # Null) = res.req.dayOfWeek
              /\ res.body.patterns[i].plays > 0
              /\ res.body.patterns[i].plays =
                     Cardinality(AtHour(res.body.patterns[i].hour, res.body.patterns[i].dayOfWeek))
              /\ res.body.patterns[i].duration =
                     DurationSum(AtHour(res.body.patterns[i].hour, res.body.patterns[i].dayOfWeek))
        /\ \A k \in Timestamped :
              \E i \in 1..Len(res.body.patterns) :
                  k \in AtHour(res.body.patterns[i].hour, res.body.patterns[i].dayOfWeek)
        /\ SumSeq([i \in 1..Len(res.body.patterns) |-> res.body.patterns[i].plays])
               = Cardinality(Timestamped)

\* records at 03:00 of two days and at 14:00, grouped by hour alone: the
\* buckets {hour 3, plays 2} and {hour 14, plays 1}
C16_Witness ==
    /\ HourlyAnswered
    /\ ~res.req.dayOfWeek
    /\ ~res.fromCache
    /\ [i \in 1..Len(plays) |-> plays[i].timestamp] =
           <<Some(StartTime + 3 * HOUR), Some(StartTime + DAY + 3 * HOUR),
             Some(StartTime + 14 * HOUR)>>
    /\ Len(res.body.patterns) = 2
    /\ res.body.patterns[1].hour = 3 /\ res.body.patterns[1].plays = 2
    /\ res.body.patterns[2].hour = 14 /\ res.body.patterns[2].plays = 1

\* the names of the weekdays, by index
WeekdayName(day) ==
    CASE day = 0 -> "Sunday" [] day = 1 -> "Monday" [] day = 2 -> "Tuesday"
      [] day = 3 -> "Wednesday" [] day = 4 -> "Thursday" [] day = 5 -> "Friday"
      [] day = 6 -> "Saturday"

DayOfWeekAnswered == res.req.route = "day-of-week" /\ res.status = 200

\* C17: the day-of-week response lists its buckets in strictly ascending
\* dayOfWeek order, so no weekday appears twice; each bucket's index is in
\* 0..6 and carries the matching name (0 = Sunday ... 6 = Saturday), its plays
\* is the number of timestamped records on that UTC weekday, and every
\* weekday that has a record has a bucket.
C17_DayOfWeekOrdered ==
    DayOfWeekAnswered =>
        /\ \A i \in 1..(Len(res.body.patterns) - 1) :
              res.body.patterns[i].dayOfWeek < res.body.patterns[i + 1].dayOfWeek
        /\ \A i \in 1..Len(res.body.patterns) :
              /\ res.body.patterns[i].dayOfWeek \in 0..6
              /\ res.body.patterns[i].dayName = WeekdayName(res.body.patterns[i].dayOfWeek)
              /\ res.body.patterns[i].plays = Cardinality(OnWeekday(res.body.patterns[i].dayOfWeek))
        /\ \A k \in Timestamped :
              \E i \in 1..Len(res.body.patterns) :
                  res.body.patterns[i].dayOfWeek = Weekday(plays[k].timestamp[1])

\* records of a Wednesday, a Tuesday and a Sunday, gathered in that order,
\* are answered as Sunday, Tuesday, Wednesday
C17_Witness ==
    /\ DayOfWeekAnswered
    /\ ~res.fromCache
    /\ [i \in 1..Len(plays) |-> plays[i].timestamp] =
           <<Some(StartTime + DAY + 3 * HOUR), Some(StartTime + 3 * HOUR),
             Some(StartTime - 2 * DAY + 14 * HOUR)>>
    /\ [i \in 1..Len(res.body.patterns) |-> res.body.patterns[i].dayName] =
           <<"Sunday", "Tuesday", "Wednesday">>

----------------------------------------------------------------------------
(* Claims about the leaderboard's sort and slice (SpecAggregate) *)

\* the last response is that of the leaderboard's sort and slice of res.adStats
SortAnswered == "adStats" \in DOMAIN res

\* the field of a row that the sortBy of the query string selects
Selects(sortBy, row) ==
    IF sortBy = Some("duration") THEN row.totalDuration
    ELSE IF sortBy = Some("frequency") THEN row.frequency[1]
    ELSE row.totalPlays

\* the rows given that are not among the rows returned
LeftOut == {k \in 1..Len(res.adStats) :
               \A i \in 1..Len(res.body.ads) : res.body.ads[i] # res.adStats[k]}

----------------------------------------------------------------------------
(* Claims about the per-ad aggregation of the device ads (SpecAggregate) *)

\* positions of the records of the device's table that name the ad
RecordsOf(deviceId, adFilename) ==
    {i \in 1..Len(plays) : plays[i].device_id = deviceId /\ plays[i].ad_filename = adFilename}

\* the latest timestamp among the records at the positions I, null when
\* none of them has one
LatestOf(I) ==
    IF I \cap Timestamped = {} THEN Null
    ELSE Some(CHOOSE t \in {plays[i].timestamp[1] : i \in I \cap Timestamped} :
                 \A i \in I \cap Timestamped : plays[i].timestamp[1] <= t)

\* a quotient num / den that equals the quotient a / b
SameQuotient(ratio, a, b) == ratio.den > 0 /\ ratio.num * b = a * ratio.den

DeviceAdsAnswered == res.req.route = "ads" /\ res.status = 200

\* C19: the response has a row for each known ad of the device, with
\* totalPlays = the number of the device's records of that ad, totalDuration =
\* the sum of their durations (an absent duration counting 0), averageDuration
\* = totalDuration / totalPlays when totalPlays > 0 and 0 otherwise, and
\* lastPlayed = the latest timestamp among the records, null when there is
\* none.
C19_PerAdAggregate ==
    DeviceAdsAnswered =>
        /\ [i \in 1..Len(res.body.ads) |-> res.body.ads[i].adFilename] = ListAds(res.req.deviceId)
        /\ \A i \in 1..Len(res.body.ads) :
              /\ res.body.ads[i].totalPlays =
                     Cardinality(RecordsOf(res.req.deviceId, res.body.ads[i].adFilename))
              /\ res.body.ads[i].totalDuration =
                     DurationSum(RecordsOf(res.req.deviceId, res.body.ads[i].adFilename))
              /\ IF res.body.ads[i].totalPlays > 0
                 THEN SameQuotient(res.body.ads[i].averageDuration,
                                   res.body.ads[i].totalDuration, res.body.ads[i].totalPlays)
                 ELSE SameQuotient(res.body.ads[i].averageDuration, 0, 1)
              /\ res.body.ads[i].lastPlayed =
                     LatestOf(RecordsOf(res.req.deviceId, res.body.ads[i].adFilename))

\* one ad with exactly one record, of duration 5, and one ad with none:
\* totalDuration 5 and averageDuration 5 for the first, averageDuration 0 and
\* lastPlayed null for the second
C19_Witness ==
    /\ DeviceAdsAnswered
    /\ ~res.fromCache
    /\ Len(plays) = 1
    /\ plays[1].play_duration = Some(5)
    /\ plays[1].timestamp # Null
    /\ \E i, j \in 1..Len(res.body.ads) :
          /\ res.body.ads[i].adFilename = plays[1].ad_filename
          /\ res.body.ads[i].totalPlays = 1
          /\ res.body.ads[i].totalDuration = 5
          /\ SameQuotient(res.body.ads[i].averageDuration, 5, 1)
          /\ res.body.ads[i].lastPlayed = plays[1].timestamp
          /\ res.body.ads[j].totalPlays = 0
          /\ SameQuotient(res.body.ads[j].averageDuration, 0, 1)
          /\ res.body.ads[j].lastPlayed = Null

----------------------------------------------------------------------------
(* Claims about the two ttl classes (Spec) *)

\* the age, at the last request, of the entry it found under its key
AgeFound == res.req.t0 - res.before[1].timestamp

\* C21: reads of the per-device caches (device summary, device ads) use a
\* ttl of 30 s and reads of the aggregate cache one of 60 s: a request
\* without refresh that finds an entry under its key is answered from the
\* cache exactly when the entry's age is at most 30 s on a per-device route
\* and at most 60 s on an aggregate route.
C21_TtlClasses ==
    (res.status # 0 /\ ~res.req.refresh /\ res.before # Null) =>
        (res.fromCache <=>
            AgeFound <= (IF res.req.route \in {"summary", "ads"} THEN 30 ELSE 60))

\* an entry of age 60 s was served on an aggregate route
C21_Witness ==
    /\ res.status = 200
    /\ ~res.req.refresh
    /\ res.before # Null
    /\ res.req.route \notin {"summary", "ads"}
    /\ AgeFound = 60
    /\ res.fromCache

\* an entry of age 60 s was not served on a per-device route
PerDeviceMissAtSixty ==
    /\ res.status # 0
    /\ ~res.req.refresh
    /\ res.before # Null
    /\ res.req.route \in {"summary", "ads"}
    /\ AgeFound = 60
    /\ ~res.fromCache

----------------------------------------------------------------------------
(* Specification SpecRace: GET /api/stats/aggregate/summary as the event    *)
(* loop runs it. The handler is not one step: it looks its key up, then     *)
(* waits for the bucket and the store, and only when the last answer has    *)
(* come in does it compute, call setCached and answer. Other handlers, the  *)
(* players and the clock run while it waits.                                *)

SummaryUrl == [route |-> "aggregate-summary", deviceId |-> "", dayOfWeek |-> FALSE,
               limit |-> Null, sortBy |-> Null]

\* a handler suspended at `await getAllDevices()`, after its lookup missed;
\* its `now` is not assigned yet
Suspended(req) ==
    [req |-> [req EXCEPT !.t0 = StartTime], pc |-> "reading", out |-> Status500(0), readLen |-> 0,
     doneAtStart |-> Cardinality({i \in DOMAIN inflight : inflight[i].pc = "done"}),
     finished |-> 0, finishedAt |-> StartTime]

\* the handler up to its first await: the lookup, and the answer on a hit
RaceBeginFound(req, found) ==
    IF found.data # Null
    THEN ServeCached(req, found) /\ UNCHANGED inflight
    ELSE /\ MapsWith(req.route, found.cache)
         /\ inflight' = Append(inflight, Suspended(req))
         /\ UNCHANGED res

RaceBegin ==
    /\ polled = SummaryUrl
    /\ received < MaxRequests
    /\ received' = received + 1
    /\ \E refresh \in BOOLEAN :
          RaceBeginFound(Request("aggregate-summary", "", refresh, FALSE, Null, Null),
                         LookupCache(Request("aggregate-summary", "", refresh, FALSE, Null, Null)))
    /\ UNCHANGED <<now, op, lastPutAt, plays, walk, polled>>

\* the bucket and the store answer handler i: `now = new Date()` and the
\* items are those of this moment
RaceRead(i) ==
    /\ inflight[i].pc = "reading"
    /\ inflight' = [inflight EXCEPT
                      ![i].pc = "responding",
                      ![i].req.t0 = now,
                      ![i].readLen = Len(plays),
                      ![i].out = AggregateSummaryResponse([inflight[i].req EXCEPT !.t0 = now],
                                                          QuietEnv)]
    /\ UNCHANGED <<now, cacheVars, op, lastPutAt, plays, walk, received, res, polled>>

\* the continuation of handler i after its last await: the counts,
\* setCached and res.json
RaceFinish(i) ==
    /\ inflight[i].pc = "responding"
    /\ ServeFresh(inflight[i].req, [data |-> Null, cache |-> aggregateCache], QuietEnv,
                  inflight[i].out)
    /\ inflight' = [inflight EXCEPT
                      ![i].pc = "done",
                      ![i].finished =
                          1 + Cardinality({j \in DOMAIN inflight : inflight[j].pc = "done"}),
                      ![i].finishedAt = now]
    /\ UNCHANGED <<now, op, lastPutAt, plays, walk, received, polled>>

InitRace ==
    /\ now = StartTime
    /\ deviceSummaryCache = <<>>
    /\ deviceAdsCache = <<>>
    /\ aggregateCache = <<>>
    /\ op = [call |-> [kind |-> "none", key |-> "", ttl |-> 0, data |-> Null,
                       at |-> StartTime, before |-> Null],
             prev |-> [kind |-> "none", key |-> "", ttl |-> 0, data |-> Null,
                       at |-> StartTime, before |-> Null]]
    /\ lastPutAt = [k \in Devices |-> Null]
    /\ plays = <<>>
    /\ walk = NoWalk
    /\ received = 0
    /\ res = NoResponse
    /\ polled = SummaryUrl
    /\ inflight = <<>>

\* the player of the first device writes a play record
RacePlay == Play("d1", "a1.mp4")

NextRace ==
    \/ Tick
    \/ RacePlay
    \/ RaceBegin
    \/ \E i \in DOMAIN inflight : RaceRead(i)
    \/ \E i \in DOMAIN inflight : RaceFinish(i)

SpecRace == InitRace /\ [][NextRace]_vars

\* the handlers that have answered, and the one of them that answered last
Done == {i \in DOMAIN inflight : inflight[i].pc = "done"}
LastDone == CHOOSE i \in Done : \A j \in Done : inflight[j].finished <= inflight[i].finished

\* handler j started while handler i had not yet answered (i started first)
InFlightTogether(i, j) ==
    /\ i < j
    /\ inflight[i].pc = "done" => inflight[j].doneAtStart < inflight[i].finished

\* C22: two requests for the key aggregate-summary in flight at once both
\* miss and both run the whole upstream computation (the prefix listing and
\* every page of every device, over all the records of the moment they
\* read), and whenever the key is stored after a handler has answered, its
\* entry is the value and the time of setCached of the handler that
\* answered last, whichever started first and whatever it had read.
C22_LastWriteWins ==
    /\ \A i, j \in DOMAIN inflight :
          (InFlightTogether(i, j) /\ {i, j} \subseteq Done) =>
              \A k \in {i, j} :
                  /\ inflight[k].out.status = 200
                  /\ inflight[k].out.calls >= 1 + Len(getAllDevices(QuietEnv))
                  /\ inflight[k].out.body.totalPlays = inflight[k].readLen
    /\ (Done # {} /\ "aggregate-summary" \in DOMAIN aggregateCache) =>
          aggregateCache["aggregate-summary"] =
              [data |-> inflight[LastDone].out.body,
               timestamp |-> inflight[LastDone].finishedAt]

\* two handlers were in flight together; the one that started first read
\* fewer records than the other and answered after it, later on the clock,
\* and the entry holds its older value and the time it answered
C22_Witness ==
    \E i, j \in Done :
        /\ InFlightTogether(i, j)
        /\ inflight[i].readLen < inflight[j].readLen
        /\ inflight[i].finished > inflight[j].finished
        /\ inflight[i].finishedAt > inflight[j].finishedAt
        /\ "aggregate-summary" \in DOMAIN aggregateCache
        /\ aggregateCache["aggregate-summary"] =
              [data |-> inflight[i].out.body, timestamp |-> inflight[i].finishedAt]
        /\ inflight[i].out.body # inflight[j].out.body


----------------------------------------------------------------------------
(* Specification SpecWalkerLive: the pagination loop against a store that   *)
(* ends its pages (a page size of 1..MaxPageSize) and against one that      *)
(* never does: a store that evaluates no record for a page and returns the  *)
(* position it was given as LastEvaluatedKey (page size 0). The store       *)
(* answers every query, and the event loop resumes the walker after each    *)
(* answer: the loop's steps are weakly fair.                                *)

\* the store keeps returning a token to this walk
Endless(w) == w.pageSize = 0 /\ Len(DeviceItems(w.deviceId)) > 0

\* the loop body, followed as far as MaxCalls queries when the store is endless
WalkerIterateLive ==
    /\ Endless(walk) => Len(walk.sent) < MaxCalls
    /\ WalkerIterate

InitWalkerLive ==
    /\ now = StartTime
    /\ deviceSummaryCache = <<>>
    /\ deviceAdsCache = <<>>
    /\ aggregateCache = <<>>
    /\ op = NoOp
    /\ lastPutAt = [k \in Devices |-> Null]
    /\ plays \in {TableOf(who) : who \in SeqsOver(Devices \X {"a1.mp4"}, MaxRecords)}
    /\ walk = NoWalk
    /\ received = 0
    /\ res = NoResponse
    /\ polled = NoUrl
    /\ inflight = <<>>

NextWalkerLive ==
    \/ \E d \in Devices, ps \in 0..MaxPageSize : WalkerStart(d, Null, ps)
    \/ WalkerIterateLive
    \/ WalkerReturn

SpecWalkerLive ==
    /\ InitWalkerLive
    /\ [][NextWalkerLive]_vars
    /\ WF_vars(WalkerIterateLive)
    /\ WF_vars(WalkerReturn)

\* C23: the walker returns exactly when a response carried no continuation
\* token. Against a store that ends its pages it always returns, after as
\* many queries as the store has pages, however many those are; it has
\* returned only if its last response carried no token, and a response
\* without a token is always the last one; against a store that returns a
\* token with every page it never returns (so the handler awaiting it never
\* answers).
C23_WalkerTermination ==
    /\ [](walk.pc = "done" =>
            /\ walk.pages[Len(walk.pages)].LastEvaluatedKey = Null
            /\ Len(walk.sent) = PagesOfStore(walk))
    /\ [](\A i \in 1..Len(walk.pages) :
            walk.pages[i].LastEvaluatedKey = Null => (i = Len(walk.pages) /\ ~walk.hasMore))
    /\ [](Endless(walk) => walk.pc # "done")
    /\ ((walk.pc = "loop" /\ ~Endless(walk)) ~> (walk.pc = "done"))

\* a walk of MaxRecords pages has returned
C23_Witness ==
    /\ walk.pc = "done"
    /\ Len(walk.pages) = MaxRecords
    /\ Len(walk.items) = MaxRecords

\* the walker is still in its loop after MaxCalls tokens of an endless store
EndlessStillLooping ==
    /\ Endless(walk)
    /\ walk.pc = "loop"
    /\ walk.hasMore
    /\ Len(walk.sent) = MaxCalls


----------------------------------------------------------------------------
(* Specification SpecTotals: one request to the device comparison, the      *)
(* leaderboard or the aggregate summary on a cache miss, over every table   *)
(* of up to MaxItems records of device d1 drawn from the records that       *)
(* matter to the route. The second device is listed and has no plays.       *)

\* records now, an hour, a day and three days ago, and without a timestamp
FrequencyTimes ==
    {Null, Some(StartTime), Some(StartTime - HOUR), Some(StartTime - DAY),
     Some(StartTime - 3 * DAY)}

FrequencyRecords ==
    [ad_filename : {"a1.mp4", "a2.mp4"}, timestamp : FrequencyTimes, play_duration : {Some(5)}]

\* records now, at and one second before each of the three window starts,
\* and without a timestamp
WindowTimes ==
    {Null, Some(StartTime), Some(StartTime - DAY), Some(StartTime - DAY - 1),
     Some(StartTime - 7 * DAY), Some(StartTime - 7 * DAY - 1),
     Some(StartTime - 30 * DAY), Some(StartTime - 30 * DAY - 1)}

WindowRecords ==
    [ad_filename : {"a1.mp4"}, timestamp : WindowTimes, play_duration : {Some(5)}]

\* the limits sent to the leaderboard: missing, 0, 1, 2, 3, 21, and texts
\* that are no number or start with one
LimitTexts ==
    {<<"0">>, <<"1">>, <<"2">>, <<"3">>, <<"2", "1">>, <<"a", "b", "c">>, <<"2", "x">>}

TotalsUrls ==
    {u \in Urls : u.route \in {"comparison", "aggregate-summary"}}
    \cup {[route |-> "leaderboard", deviceId |-> "", dayOfWeek |-> FALSE,
           limit |-> l, sortBy |-> Null] : l \in {Null} \cup {Some(t) : t \in LimitTexts}}

\* n rows of the ads ad1 .. adn, in ascending order of their plays
NumberedRows(n) ==
    AdStatsOf([i \in 1..n |-> [totalPlays |-> i, totalDuration |-> 5, frequency |-> Some(1)]])

\* the bucket does not answer the listing of the prefixes
NoListingEnv == [pageSize |-> MaxPageSize - 1, faults |-> {<<"prefixes">>}]

\* a request handled on a miss while the store and the bucket behave as env
HandleWith(req, env) ==
    /\ UrlOf(req) = polled
    /\ received < MaxRequests
    /\ received' = received + 1
    /\ ServeFresh(req, LookupCache(req), env, Respond(req, env))
    /\ UNCHANGED <<now, op, lastPutAt, plays, walk, polled, inflight>>

InitTotals ==
    /\ now = StartTime
    /\ deviceSummaryCache = <<>>
    /\ deviceAdsCache = <<>>
    /\ aggregateCache = <<>>
    /\ op = NoOp
    /\ lastPutAt = [k \in Devices |-> Null]
    /\ walk = NoWalk
    /\ received = 0
    /\ res = NoResponse
    /\ polled \in TotalsUrls
    /\ inflight = <<>>
    /\ plays \in {ItemsTableOf(records) :
                    records \in SeqsOver(IF polled.route = "aggregate-summary"
                                         THEN WindowRecords ELSE FrequencyRecords, MaxItems)}

NextTotals ==
    \/ received = 0 /\ HandleWith(Request("comparison", "", FALSE, FALSE, Null, Null), QuietEnv)
    \/ received = 0 /\ polled.route = "leaderboard"
                     /\ HandleWith(Request("leaderboard", "", FALSE, FALSE,
                                           polled.limit, polled.sortBy), QuietEnv)
    \/ received = 0 /\ \E env \in {QuietEnv, NoListingEnv} :
                          HandleWith(Request("aggregate-summary", "", FALSE, FALSE, Null, Null),
                                     env)
    \/ received = 0 /\ plays = <<>>
                     /\ \E n \in 0..MaxRows : SortLeaderboard(NumberedRows(n))

SpecTotals == InitTotals /\ [][NextTotals]_vars

----------------------------------------------------------------------------
(* Claims about plays per day (SpecTotals) *)

\* the plays of a device and those of an ad in the table
PlaysOfDevice(d) == {i \in 1..Len(plays) : plays[i].device_id = d}
PlaysOfAd(a) == {i \in 1..Len(plays) : plays[i].ad_filename = a}

AllTimestamped(S) == \A i \in S : plays[i].timestamp # Null

Earliest(S) == CHOOSE t \in {plays[i].timestamp[1] : i \in S} :
                   \A i \in S : t <= plays[i].timestamp[1]
Latest(S) == CHOOSE t \in {plays[i].timestamp[1] : i \in S} :
                 \A i \in S : t >= plays[i].timestamp[1]

\* max(1, days between the earliest and the latest play), in seconds
SpanOf(S) == IF Latest(S) - Earliest(S) > DAY THEN Latest(S) - Earliest(S) ELSE DAY

\* what the claim requires of the value reported for the plays S, a number
\* of hundredths or Null for NaN: 0 for no plays; otherwise a number, at most
\* the number of plays, and where every play has a timestamp the quotient
\* plays / max(1, days), which is the number of plays when they lie within one day
IsPlaysPerDay(value, S) ==
    /\ value # Null
    /\ S = {} => value[1] = 0
    /\ value[1] <= 100 * Cardinality(S)
    /\ (S # {} /\ AllTimestamped(S)) =>
          /\ value[1] = (200 * Cardinality(S) * DAY + SpanOf(S)) \div (2 * SpanOf(S))
          /\ Latest(S) - Earliest(S) <= DAY => value[1] = 100 * Cardinality(S)

ComparisonAnswered == res.req.route = "comparison" /\ res.status = 200
\* the whole leaderboard handler has answered
LeaderboardAnswered == res.req.route = "leaderboard" /\ res.status = 200 /\ ~SortAnswered

\* C24: the leaderboard frequency of every ad and the comparison
\* avgPlaysPerDay of every device are, to the hundredth, totalPlays divided
\* by max(1, days between the earliest and the latest play) for every
\* non-empty record set: a number, never above totalPlays, equal to
\* totalPlays when all plays lie within one day; and 0 for no records.
C24_PlaysPerDay ==
    /\ ComparisonAnswered =>
          \A i \in 1..Len(res.body.devices) :
              IsPlaysPerDay(res.body.devices[i].avgPlaysPerDay,
                            PlaysOfDevice(res.body.devices[i].deviceId))
    /\ LeaderboardAnswered =>
          \A i \in 1..Len(res.body.ads) :
              IsPlaysPerDay(res.body.ads[i].frequency, PlaysOfAd(res.body.ads[i].adFilename))

\* where every play has a timestamp the values are as claimed
TimestampedPlaysPerDay ==
    AllTimestamped(1..Len(plays)) => C24_PlaysPerDay

\* three plays over three days reported as one play a day
ThreePlaysInThreeDays ==
    /\ ComparisonAnswered
    /\ Len(plays) = 3
    /\ AllTimestamped(1..3)
    /\ Latest(1..3) - Earliest(1..3) = 3 * DAY
    /\ res.body.devices[1].avgPlaysPerDay = Some(100)


----------------------------------------------------------------------------
(* Claims about failures and the cache (Spec) *)

\* every entry of the map after the step was in it before, unchanged
NothingWritten(before, after) ==
    \A k \in DOMAIN after : k \in DOMAIN before /\ after[k] = before[k]

\* C26: a request answered with 500 writes nothing to any of the three
\* caches: every entry stored after it was stored before it with the same
\* data and the same insertion time; and when the request carried
\* refresh=true the three maps are exactly as they were, so an entry stored
\* before it is still there to be served until its ttl expires.
C26_FailureWritesNothing ==
    [][(received' = received + 1 /\ res'.status = 500) =>
          /\ NothingWritten(deviceSummaryCache, deviceSummaryCache')
          /\ NothingWritten(deviceAdsCache, deviceAdsCache')
          /\ NothingWritten(aggregateCache, aggregateCache')
          /\ res'.req.refresh => cacheVars' = cacheVars]_vars

\* a refresh failed while a fresh entry stored at an earlier time was under
\* its key, and the entry is stored as it was
C26_Witness ==
    /\ res.status = 500
    /\ res.req.refresh
    /\ FoundFresh
    /\ res.before[1].timestamp < res.req.t0
    /\ EntryNow = res.before

\* a request without refresh failed after its lookup had removed an expired entry
FailedAfterEviction ==
    /\ res.status = 500
    /\ ~res.req.refresh
    /\ res.before # Null
    /\ EntryNow = Null

\* some row of the body is the zeroed row of a failed branch
HasDegraded(body) == \E i \in 1..Len(body.ads) : Degraded(body.ads[i])

\* C27: a device-ads or leaderboard response that carries the zeroed row of
\* a failed branch is stored like any other result, under the key and with
\* the time of the request; and a request without refresh that finds such an
\* entry within the ttl is answered with exactly that response, error row
\* included, without any upstream call and without a write to the cache.
C27_DegradedIsCached ==
    (res.status = 200 /\ res.req.route \in {"ads", "leaderboard"}) =>
        /\ (~res.fromCache /\ HasDegraded(res.body)) =>
              EntryNow = Some([data |-> res.body, timestamp |-> res.req.t0])
        /\ (~res.req.refresh /\ FoundFresh /\ HasDegraded(res.before[1].data)) =>
              /\ res.fromCache
              /\ res.body = res.before[1].data
              /\ res.calls = 0
              /\ EntryNow = res.before

\* a hit, later on the clock, on a response with a degraded row, while a new
\* computation with no failing call would give a response without one
C27_Witness ==
    /\ res.fromCache
    /\ res.req.route \in {"ads", "leaderboard"}
    /\ HasDegraded(res.body)
    /\ res.before[1].timestamp < res.req.t0
    /\ res.calls = 0
    /\ ~HasDegraded(Respond(res.req, QuietEnv).body)


----------------------------------------------------------------------------
(* Claims about the placeholders of the Query (SpecStats) *)

\* the placeholders that occur in a key condition expression
PlaceholdersIn(expression) ==
    IF expression = "#pk = :pk" THEN {"#pk", ":pk"}
    ELSE IF expression = "#pk = :pk AND #sk BETWEEN :sk_start AND :sk_end"
         THEN {"#pk", ":pk", "#sk", ":sk_start", ":sk_end"}
    ELSE IF expression = "#pk = :pk AND #sk = :sk" THEN {"#pk", ":pk", "#sk", ":sk"}
    ELSE IF expression = "#pk = :pk AND #sk >= :sk_start" THEN {"#pk", ":pk", "#sk", ":sk_start"}
    ELSE IF expression = "#pk = :pk AND #sk <= :sk_end" THEN {"#pk", ":pk", "#sk", ":sk_end"}
    ELSE {"unknown expression"}

QuerySent == res.req.route = "stats" /\ res.command # Null /\ res.command[1].kind = "Query"

\* C28: in every Query built by POST /api/stats the placeholders declared in
\* ExpressionAttributeNames and in ExpressionAttributeValues are exactly the
\* placeholders of the KeyConditionExpression: each declared one is
\* referenced and each referenced one is declared.
C28_PlaceholdersMatch ==
    QuerySent =>
        (DOMAIN res.command[1].ExpressionAttributeNames)
            \cup (DOMAIN res.command[1].ExpressionAttributeValues)
        = PlaceholdersIn(res.command[1].KeyConditionExpression)

\* every placeholder the expression references is declared
ReferencedAreDeclared ==
    QuerySent =>
        PlaceholdersIn(res.command[1].KeyConditionExpression)
        \subseteq (DOMAIN res.command[1].ExpressionAttributeNames)
                  \cup (DOMAIN res.command[1].ExpressionAttributeValues)

\* every declared value placeholder is referenced
ValuesAreReferenced ==
    QuerySent =>
        (DOMAIN res.command[1].ExpressionAttributeValues)
        \subseteq PlaceholdersIn(res.command[1].KeyConditionExpression)

\* a Query that declares #sk and whose expression is the partition equality alone
UnusedSortName ==
    /\ QuerySent
    /\ res.command[1].KeyConditionExpression = "#pk = :pk"
    /\ "#sk" \in DOMAIN res.command[1].ExpressionAttributeNames


----------------------------------------------------------------------------
(* Claims about the aggregate summary (SpecTotals) *)

SummaryAnswered == res.req.route = "aggregate-summary" /\ res.status = 200

\* the devices the handler listed: none when the listing of the prefixes failed
Listed == IF <<"prefixes">> \in res.env.faults THEN {} ELSE Devices

\* the records of the listed devices with a timestamp of at least lo
ListedFrom(lo) == {i \in From(lo) : plays[i].device_id \in Listed}

\* C29: for every record set the window counts of the aggregate summary are
\* nested, totalPlays24hr <= totalPlays7d <= totalPlays30d <= totalPlays;
\* each window counts the records with a timestamp of at least now - 1d,
\* now - 7d and now - 30d, so that a record without a timestamp is counted in
\* totalPlays only; activeDevices is the number of devices listed, with or
\* without plays; and avgPlaysPerDevice is 0 when no device is listed.
C29_NestedWindows ==
    SummaryAnswered =>
        /\ res.body.totalPlays24hr <= res.body.totalPlays7d
        /\ res.body.totalPlays7d <= res.body.totalPlays30d
        /\ res.body.totalPlays30d <= res.body.totalPlays
        /\ res.body.totalPlays = Cardinality({i \in 1..Len(plays) : plays[i].device_id \in Listed})
        /\ res.body.totalPlays24hr = Cardinality(ListedFrom(res.req.t0 - DAY))
        /\ res.body.totalPlays7d = Cardinality(ListedFrom(res.req.t0 - 7 * DAY))
        /\ res.body.totalPlays30d = Cardinality(ListedFrom(res.req.t0 - 30 * DAY))
        /\ res.body.activeDevices = Cardinality(Listed)
        /\ Listed = {} => res.body.avgPlaysPerDevice = 0

\* three records of the first device: one without a timestamp, one exactly a
\* day old and one a second more than seven days old; the second device is
\* listed without plays
C29_Witness ==
    /\ SummaryAnswered
    /\ Listed = Devices
    /\ {plays[i].timestamp : i \in 1..Len(plays)} =
           {Null, Some(StartTime - DAY), Some(StartTime - 7 * DAY - 1)}
    /\ res.body.totalPlays = 3
    /\ res.body.totalPlays24hr = 1
    /\ res.body.totalPlays7d = 1
    /\ res.body.totalPlays30d = 2
    /\ res.body.activeDevices = 2

\* the listing failed: a success with no device, no play and an average of 0
NoDeviceListed ==
    /\ SummaryAnswered
    /\ Listed = {}
    /\ Len(plays) > 0
    /\ res.body.totalPlays = 0
    /\ res.body.activeDevices = 0
    /\ res.body.avgPlaysPerDevice = 0


----------------------------------------------------------------------------
(* Claims about the limit of the leaderboard (SpecTotals) *)

\* the number a limit stands for: the number written, or 20 when the limit is
\* missing, no number, or 0
LimitMeant(limit) ==
    IF limit = Some(<<"1">>) THEN 1
    ELSE IF limit \in {Some(<<"2">>), Some(<<"2", "x">>)} THEN 2
    ELSE IF limit = Some(<<"3">>) THEN 3
    ELSE IF limit = Some(<<"2", "1">>) THEN 21
    ELSE 20

\* the ad names found in the listings of the devices
AdNamesListed ==
    {BucketObjects[i].name : i \in {j \in 1..Len(BucketObjects) :
                                      BucketObjects[j].mp4 /\ BucketObjects[j].dir \in Devices}}

\* C30: a leaderboard request whose limit parses to a positive integer L is
\* answered with the first min(L, total) rows of the sorted list, and a
\* request whose limit is missing, no number or 0 with the first
\* min(20, total); total is the number of rows, one for each distinct ad
\* name found, whatever the limit.
C30_LimitCutsSorted ==
    /\ SortAnswered =>
          /\ res.body.total = Len(res.adStats)
          /\ Len(res.body.ads) = Min(LimitMeant(res.req.limit), Len(res.adStats))
          /\ \A i \in 1..Len(res.body.ads) :
                res.body.ads[i] = res.adStats[Len(res.adStats) + 1 - i]
    /\ LeaderboardAnswered =>
          /\ res.body.total = Cardinality(AdNamesListed)
          /\ Len(res.body.ads) = Min(LimitMeant(res.req.limit), Cardinality(AdNamesListed))
          /\ \A i, j \in 1..Len(res.body.ads) :
                res.body.ads[i].adFilename = res.body.ads[j].adFilename => i = j

\* of MaxRows rows a request without a limit is given the 20 with the most plays
C30_Witness ==
    /\ SortAnswered
    /\ res.req.limit = Null
    /\ Len(res.adStats) = MaxRows
    /\ Len(res.body.ads) = 20
    /\ res.body.ads[1].totalPlays = MaxRows
    /\ res.body.ads[20].totalPlays = MaxRows - 19
    /\ res.body.total = MaxRows

\* a limit of 21 returns one row more than no limit does
LimitAboveDefault ==
    /\ SortAnswered
    /\ res.req.limit = Some(<<"2", "1">>)
    /\ Len(res.adStats) = MaxRows
    /\ Len(res.body.ads) = 21

\* a limit of 1 on the listings of the two devices: one row, total 2
OneOfTwoAds ==
    /\ LeaderboardAnswered
    /\ res.req.limit = Some(<<"1">>)
    /\ Len(res.body.ads) = 1
    /\ res.body.total = 2


----------------------------------------------------------------------------
(* Specification SpecKeys: requests to different URLs in one behaviour,     *)
(* over a table that does not change and upstream calls that succeed, so    *)
(* that what a URL is answered with on a miss depends on the URL alone.     *)

\* two plays of a1.mp4 and one of a2.mp4 on the first device, one play of
\* a1.mp4 on the second
KeysTable ==
    TableOf(<< <<"d1", "a1.mp4">>, <<"d1", "a2.mp4">>, <<"d2", "a1.mp4">>, <<"d1", "a1.mp4">> >>)

\* the query strings of the leaderboard: with and without a limit, with a
\* limit of 0, with and without sortBy
KeyQueries ==
    [limit : {Null, Some(<<"1">>)}, sortBy : {Null, Some("frequency")}]
    \cup {[limit |-> Some(<<"0">>), sortBy |-> Null], [limit |-> Null, sortBy |-> Some("plays")]}

KeyUrls ==
    {u \in Urls : u.route \in {"summary", "ads", "hourly-patterns", "aggregate-summary",
                               "day-of-week"}}
    \cup {[route |-> "leaderboard", deviceId |-> "", dayOfWeek |-> FALSE,
           limit |-> q.limit, sortBy |-> q.sortBy] : q \in KeyQueries}

\* a request to any of the URLs, handled while every upstream call succeeds
HandleUrl(u, refresh) ==
    /\ received < MaxRequests
    /\ received' = received + 1
    /\ ServeQuiet(Request(u.route, u.deviceId, refresh, u.dayOfWeek, u.limit, u.sortBy),
                  LookupCache(Request(u.route, u.deviceId, refresh, u.dayOfWeek,
                                      u.limit, u.sortBy)))
    /\ UNCHANGED <<now, op, lastPutAt, plays, walk, polled, inflight>>

InitKeys ==
    /\ now = StartTime
    /\ deviceSummaryCache = <<>>
    /\ deviceAdsCache = <<>>
    /\ aggregateCache = <<>>
    /\ op = NoOp
    /\ lastPutAt = [k \in Devices |-> Null]
    /\ plays = KeysTable
    /\ walk = NoWalk
    /\ received = 0
    /\ res = NoResponse
    /\ polled = NoUrl
    /\ inflight = <<>>

NextKeys ==
    \/ Tick
    \/ \E u \in KeyUrls, refresh \in BOOLEAN : HandleUrl(u, refresh)

SpecKeys == InitKeys /\ [][NextKeys]_vars

\* the entries of a map other than the one under key are as they were
OthersKept(before, after, key) ==
    /\ (DOMAIN after) \ {key} = (DOMAIN before) \ {key}
    /\ \A k \in (DOMAIN after) \ {key} : after[k] = before[k]

\* C25: a response served from the cache is the response the parameters of
\* the request produce (the table being the same): a request is never given
\* what a request with another device, dayOfWeek flag, limit or sortBy
\* stored. And a request changes at most the entry under its own key in the
\* map of its route: every other entry of that map and the two other maps
\* are as they were.
C25_KeyIsolation ==
    /\ [](res.fromCache => res.body = Respond(res.req, QuietEnv).body)
    /\ [][received' = received + 1 =>
            /\ OthersKept(deviceSummaryCache, deviceSummaryCache',
                          IF res'.req.route = "summary" THEN res'.req.deviceId ELSE "")
            /\ OthersKept(deviceAdsCache, deviceAdsCache',
                          IF res'.req.route = "ads" THEN res'.req.deviceId ELSE "")
            /\ OthersKept(aggregateCache, aggregateCache',
                          IF res'.req.route \in {"summary", "ads"} THEN ""
                          ELSE CacheKey(res'.req))]_vars

\* the leaderboard cut to one row was computed and stored while the
\* uncut leaderboard, of two rows, was stored under its own key, where it
\* still is, next to the entries of both devices' summaries
C25_Witness ==
    /\ res.req.route = "leaderboard"
    /\ res.req.limit = Some(<<"1">>)
    /\ res.req.sortBy = Null
    /\ ~res.fromCache
    /\ ~res.req.refresh
    /\ Len(res.body.ads) = 1
    /\ "ads-leaderboard-20-plays" \in DOMAIN aggregateCache
    /\ Len(aggregateCache["ads-leaderboard-20-plays"].data.ads) = 2
    /\ aggregateCache["ads-leaderboard-1-plays"].data = res.body

\* a request with limit=0 was served the entry stored by a request without limit
ZeroServedDefault ==
    /\ res.req.route = "leaderboard"
    /\ res.req.limit = Some(<<"0">>)
    /\ res.fromCache
    /\ DOMAIN aggregateCache = {"ads-leaderboard-20-plays"}


====
